---- MODULE Spec2Model ----
(***************************************************************************)
(* Model of magnum_opus.operarius: the Tasks collection (task graph,       *)
(* processing scope, dependency lookup and task ordering), the             *)
(* TaskProcessor (event journal, action dispatch, automatic rollback) and  *)
(* the WorkflowExecutor (stages, commits, error hook).                     *)
(*                                                                         *)
(* A Tasks object is a Python dict keyed by task id; dicts iterate in      *)
(* insertion order, so the dict is modelled as a sequence of entries.      *)
(* Every public operation is one action; the value it returns or the       *)
(* exception it raises is recorded in `ret`, the call in `call`.           *)
(*                                                                         *)
(* Each component has its own specification over the same variables:       *)
(* Spec (Tasks), SpecProcessor (TaskProcessor.process_task), SpecEvents    *)
(* (TaskProcessor.add_event), SpecWorkflow (WorkflowExecutor),             *)
(* SpecValidation (TaskProcessingActionParameterValidation),               *)
(* SpecTaskProcessingHook (TaskProcessingHook.run), SpecStateUpdateHook    *)
(* (TaskPostProcessingStateUpdateHook.run), SpecResolver                   *)
(* (ResolveTaskSpecVariablesHook), SpecBuiltinWorkflow (WorkflowExecutor   *)
(* with the hooks of the library), SpecTaskState (TaskState) and           *)
(* SpecPersistence (StatePersistence and the mappings of its caller).      *)
(***************************************************************************)
EXTENDS Integers, Sequences, FiniteSets, TLC

VARIABLES
    tasks,      \* Tasks.tasks: sequence of [id, TaskInstance, TaskDependencies, TaskProcessingScopes]
    call,       \* the operation invoked last and its arguments
    ret,        \* what that operation returned or raised
    variable_store, \* the caller's VariableStore object: variable name -> value
    now,        \* the wall clock read by datetime.now(timezone.utc)
    executor,   \* the WorkflowExecutor: ordered_workflow_steps, command_to_action_map, variable_store
    persistence, \* the StatePersistence object: commit() calls received, state_cache
    parameter_validator, \* the ParameterValidation object handed to the hooks: constraints
    task_process_store,  \* TaskProcessStore.task_processor_register: api_version -> processor
    hook_task   \* the Task object handed to a hook

\* the objects only the library's hooks work on
hookVars == <<parameter_validator, task_process_store, hook_task>>

vars == <<tasks, call, ret, variable_store, now, executor, persistence, hookVars>>

\* what the operations of Tasks leave alone
nonTasksVars == <<variable_store, now, executor, persistence, hookVars>>

-----------------------------------------------------------------------------
(* Bounds of the model *)

\* most tasks held by one Tasks object
MaxTasks == 3

\* depth of nested _task_ordering calls at which the interpreter gives up
\* (RecursionError); any value above MaxTasks leaves acyclic runs untouched
RecursionLimit == 5

TaskIds == {"t1", "t2", "t3", "t4"}
Commands == {"c1", "c2"}
Contexts == {"x1", "x2"}

-----------------------------------------------------------------------------
(* Manifest values *)

\* one item of metadata.processingScope / one clause of metadata.dependencies
NullItem == [kind |-> "null", hasTasks |-> FALSE, tasks |-> <<>>,
             hasCommands |-> FALSE, commands |-> {},
             hasContexts |-> FALSE, contexts |-> {}]
NotDictItem == [NullItem EXCEPT !.kind = "notdict"]
EmptyDict == [NullItem EXCEPT !.kind = "dict"]
WithCommands(d, cs) == [d EXCEPT !.hasCommands = TRUE, !.commands = cs]
WithContexts(d, xs) == [d EXCEPT !.hasContexts = TRUE, !.contexts = xs]
WithTasks(d, ts) == [d EXCEPT !.hasTasks = TRUE, !.tasks = ts]

\* a metadata value: the key is absent, None, something that is not a list, or a list
Absent == [kind |-> "absent", items |-> <<>>]
Null == [kind |-> "null", items |-> <<>>]
NotAList == [kind |-> "notlist", items |-> <<>>]
ListOf(items) == [kind |-> "list", items |-> items]

\* Task(metadata={'name': n, 'processingScope': ps, 'processingScopes': pss, 'dependencies': d})
Task(n, ps, pss, d) ==
    [py |-> "Task", name |-> n, processingScope |-> ps,
     processingScopes |-> pss, dependencies |-> d]

\* Python's None where a Task is expected
None == [py |-> "NoneType", name |-> "", processingScope |-> Absent,
         processingScopes |-> Absent, dependencies |-> Absent]

-----------------------------------------------------------------------------
(* Results of an operation: a returned value or a raised exception *)

ReturnList(l) == [status |-> "return", order |-> l, flag |-> FALSE, task |-> "", dep |-> ""]
ReturnBool(b) == [status |-> "return", order |-> <<>>, flag |-> b, task |-> "", dep |-> ""]
Raise(kind, t, d) == [status |-> kind, order |-> <<>>, flag |-> FALSE, task |-> t, dep |-> d]
NoReturn == [status |-> "none", order |-> <<>>, flag |-> FALSE, task |-> "", dep |-> ""]

Contains(l, x) == \E i \in 1..Len(l) : l[i] = x

-----------------------------------------------------------------------------
(* Tasks: the dict *)

HasKey(self, task_name) == \E i \in 1..Len(self) : self[i].id = task_name
KeyIndex(self, task_name) == CHOOSE i \in 1..Len(self) : self[i].id = task_name
Keys(self) == [i \in 1..Len(self) |-> self[i].id]

\* Tasks._extract_task_dependencies
ExtractTaskDependencies(metadata) ==
    IF metadata.dependencies.kind = "list" THEN metadata.dependencies.items ELSE <<>>

\* Tasks._extract_task_processing_scopes (reads the key 'processingScopes')
ExtractTaskProcessingScopes(metadata) ==
    IF metadata.processingScopes.kind = "list" THEN metadata.processingScopes.items ELSE <<>>

\* self.tasks[task.task_id] = {...}: a new key goes last, an existing key keeps its place
DictSet(self, key, value) ==
    IF HasKey(self, key)
    THEN [self EXCEPT ![KeyIndex(self, key)] = value]
    ELSE Append(self, value)

\* Tasks.add_task
AddTaskEntry(self, task) ==
    DictSet(self, task.name,
            [id |-> task.name,
             TaskInstance |-> task,
             TaskDependencies |-> ExtractTaskDependencies(task),
             TaskProcessingScopes |-> ExtractTaskProcessingScopes(task)])

\* Tasks.get_task_instance_by_name: None when the name is not a key
GetTaskInstanceByName(self, task_name) ==
    IF HasKey(self, task_name) THEN self[KeyIndex(self, task_name)].TaskInstance ELSE None

-----------------------------------------------------------------------------
(* Tasks.task_scoped_for_processing *)

\* mutant: a scope item with both lists matches when either list matches
ScopeItemMatchesEither(processing_scope, command, context) ==
    IF ~processing_scope.hasCommands /\ ~processing_scope.hasContexts THEN TRUE
    ELSE IF processing_scope.hasCommands /\ ~processing_scope.hasContexts
        THEN command \in processing_scope.commands
    ELSE IF ~processing_scope.hasCommands /\ processing_scope.hasContexts
        THEN context \in processing_scope.contexts
    ELSE command \in processing_scope.commands \/ context \in processing_scope.contexts

\* the if/elif chain on one dict item of processingScope: TRUE when it returns True
ScopeItemMatches(processing_scope, command, context) ==
    IF ~processing_scope.hasCommands /\ ~processing_scope.hasContexts THEN TRUE
    ELSE IF processing_scope.hasCommands /\ ~processing_scope.hasContexts
        THEN command \in processing_scope.commands
    ELSE IF ~processing_scope.hasCommands /\ processing_scope.hasContexts
        THEN context \in processing_scope.contexts
    ELSE command \in processing_scope.commands /\ context \in processing_scope.contexts

\* the for loop over task.metadata['processingScope'], from item i on
RECURSIVE ScopeLoop(_, _, _, _)
ScopeLoop(items, i, command, context) ==
    IF i > Len(items) THEN FALSE
    ELSE IF items[i].kind = "null" THEN ScopeLoop(items, i + 1, command, context)
    ELSE IF items[i].kind # "dict" THEN ScopeLoop(items, i + 1, command, context)
    ELSE IF ScopeItemMatches(items[i], command, context) THEN TRUE
    ELSE ScopeLoop(items, i + 1, command, context)

\* mutant: a task that is not in the set counts as in scope
TaskScopedForProcessingOfMissingTask(self, task_name, command, context) ==
    LET task == GetTaskInstanceByName(self, task_name) IN
    IF task.py = "NoneType" THEN ReturnBool(TRUE)
    ELSE IF task.processingScope.kind = "absent" THEN ReturnBool(TRUE)
    ELSE IF task.processingScope.kind = "null" THEN ReturnBool(TRUE)
    ELSE IF task.processingScope.kind # "list" THEN ReturnBool(TRUE)
    ELSE ReturnBool(ScopeLoop(task.processingScope.items, 1, command, context))

TaskScopedForProcessing(self, task_name, command, context) ==
    LET task == GetTaskInstanceByName(self, task_name) IN
    IF task.py = "NoneType" THEN Raise("AttributeError", task_name, "")
    ELSE IF task.processingScope.kind = "absent" THEN ReturnBool(TRUE)
    ELSE IF task.processingScope.kind = "null" THEN ReturnBool(TRUE)
    ELSE IF task.processingScope.kind # "list" THEN ReturnBool(TRUE)
    ELSE ReturnBool(ScopeLoop(task.processingScope.items, 1, command, context))

-----------------------------------------------------------------------------
(* Tasks.get_task_dependencies_as_list_of_task_names *)

\* mutant: a clause with both lists is active when either list matches
ClauseAddsEither(task_defined_dependency, command, context) ==
    IF ~task_defined_dependency.hasCommands /\ ~task_defined_dependency.hasContexts THEN TRUE
    ELSE IF ~task_defined_dependency.hasCommands /\ task_defined_dependency.hasContexts
        THEN context \in task_defined_dependency.contexts
    ELSE IF task_defined_dependency.hasCommands /\ ~task_defined_dependency.hasContexts
        THEN command \in task_defined_dependency.commands
    ELSE command \in task_defined_dependency.commands
         \/ context \in task_defined_dependency.contexts

\* the four-way if/elif that decides whether a clause's tasks are added
ClauseAdds(task_defined_dependency, command, context) ==
    IF ~task_defined_dependency.hasCommands /\ ~task_defined_dependency.hasContexts THEN TRUE
    ELSE IF ~task_defined_dependency.hasCommands /\ task_defined_dependency.hasContexts
        THEN context \in task_defined_dependency.contexts
    ELSE IF task_defined_dependency.hasCommands /\ ~task_defined_dependency.hasContexts
        THEN command \in task_defined_dependency.commands
    ELSE command \in task_defined_dependency.commands
         /\ context \in task_defined_dependency.contexts

\* mutant: the scope of the named tasks is not checked
ClauseScopeCheckPasses(self, task_name, names, j, command, context) == ReturnBool(TRUE)

\* the inner for loop: every name of the clause is checked for scope, from name j on
RECURSIVE ClauseScopeCheck(_, _, _, _, _, _)
ClauseScopeCheck(self, task_name, names, j, command, context) ==
    IF j > Len(names) THEN ReturnBool(TRUE)
    ELSE LET scoped == TaskScopedForProcessing(self, names[j], command, context) IN
         IF scoped.status # "return" THEN scoped
         ELSE IF scoped.flag = FALSE THEN Raise("Exception", task_name, names[j])
         ELSE ClauseScopeCheck(self, task_name, names, j + 1, command, context)

\* mutant: only the clauses that are active have their tasks checked for scope
RECURSIVE DependencyLoopChecksActiveOnly(_, _, _, _, _, _, _)
DependencyLoopChecksActiveOnly(self, task_name, clauses, i, dependencies, command, context) ==
    IF i > Len(clauses) THEN ReturnList(dependencies)
    ELSE IF ~clauses[i].hasTasks \/ ~ClauseAdds(clauses[i], command, context)
        THEN DependencyLoopChecksActiveOnly(self, task_name, clauses, i + 1, dependencies,
                                            command, context)
    ELSE LET check == ClauseScopeCheck(self, task_name, clauses[i].tasks, 1, command, context) IN
         IF check.status # "return" THEN check
         ELSE DependencyLoopChecksActiveOnly(self, task_name, clauses, i + 1,
                                             dependencies \o clauses[i].tasks,
                                             command, context)

\* the outer for loop over the task's clauses, from clause i on, with the list built so far
RECURSIVE DependencyLoop(_, _, _, _, _, _, _)
DependencyLoop(self, task_name, clauses, i, dependencies, command, context) ==
    IF i > Len(clauses) THEN ReturnList(dependencies)
    ELSE IF ~clauses[i].hasTasks
        THEN DependencyLoop(self, task_name, clauses, i + 1, dependencies, command, context)
    ELSE LET check == ClauseScopeCheck(self, task_name, clauses[i].tasks, 1, command, context) IN
         IF check.status # "return" THEN check
         ELSE DependencyLoop(self, task_name, clauses, i + 1,
                             IF ClauseAdds(clauses[i], command, context)
                             THEN dependencies \o clauses[i].tasks
                             ELSE dependencies,
                             command, context)

GetTaskDependenciesAsListOfTaskNames(self, task_name, command, context) ==
    IF HasKey(self, task_name)
    THEN DependencyLoop(self, task_name, self[KeyIndex(self, task_name)].TaskDependencies,
                        1, <<>>, command, context)
    ELSE ReturnList(<<>>)

-----------------------------------------------------------------------------
(* Tasks._task_ordering and Tasks.get_task_names_in_order *)

\* mutant: the name is appended without the membership test
AppendAlways(order, name) == Append(order, name)

\* if candidate_task_name not in list: list.append(candidate_task_name)
AppendIfAbsent(order, name) ==
    IF ~Contains(order, name) THEN Append(order, name) ELSE order

\* list += self._task_ordering(current_processing_order=copy.deepcopy(list), ...)
Concatenate(order, returned) == order \o returned

RECURSIVE TaskOrdering(_, _, _, _, _, _)
RECURSIVE OrderingLoop(_, _, _, _, _, _, _)

\* mutant: the dependencies are not visited before the candidate is appended
OrderingLoopSkipsDependencies(self, order, deps, i, command, context, depth) ==
    ReturnList(order)

\* the for loop over the candidate's dependencies, from dependency i on;
\* `order` is task_names_in_preferred_processing_order
OrderingLoop(self, order, deps, i, command, context, depth) ==
    IF i > Len(deps) THEN ReturnList(order)
    ELSE LET scoped == TaskScopedForProcessing(self, deps[i], command, context) IN
         IF scoped.status # "return" THEN scoped
         ELSE IF scoped.flag /\ ~Contains(order, deps[i])
         THEN LET sub == TaskOrdering(self, order, deps[i], command, context, depth + 1) IN
              IF sub.status # "return" THEN sub
              ELSE OrderingLoop(self, Concatenate(order, sub.order), deps, i + 1,
                                command, context, depth)
         ELSE OrderingLoop(self, order, deps, i + 1, command, context, depth)

\* depth counts the nested _task_ordering frames; past RecursionLimit the
\* interpreter raises RecursionError
TaskOrdering(self, current_processing_order, candidate_task_name, command, context, depth) ==
    IF depth > RecursionLimit THEN Raise("RecursionError", candidate_task_name, "")
    ELSE
    LET scoped == TaskScopedForProcessing(self, candidate_task_name, command, context) IN
    IF scoped.status # "return" THEN scoped
    ELSE IF scoped.flag = FALSE THEN ReturnList(current_processing_order)
    ELSE LET deps == GetTaskDependenciesAsListOfTaskNames(self, candidate_task_name,
                                                          command, context) IN
         IF deps.status # "return" THEN deps
         ELSE LET looped == OrderingLoop(self, current_processing_order, deps.order, 1,
                                         command, context, depth) IN
              IF looped.status # "return" THEN looped
              ELSE ReturnList(AppendIfAbsent(looped.order, candidate_task_name))

\* the inner for loop of get_task_names_in_order: appends the names not yet present
RECURSIVE MergeInOrder(_, _, _)
MergeInOrder(order, returned, j) ==
    IF j > Len(returned) THEN order
    ELSE MergeInOrder(AppendIfAbsent(order, returned[j]), returned, j + 1)

\* the outer for loop over list(self.tasks.keys()), from key i on
RECURSIVE NamesLoop(_, _, _, _, _)
NamesLoop(self, order, i, command, context) ==
    IF i > Len(self) THEN ReturnList(order)
    ELSE IF Contains(order, self[i].id) THEN NamesLoop(self, order, i + 1, command, context)
    ELSE LET sub == TaskOrdering(self, order, self[i].id, command, context, 1) IN
         IF sub.status # "return" THEN sub
         ELSE NamesLoop(self, MergeInOrder(order, sub.order, 1), i + 1, command, context)

\* mutant: the keys are walked from the last inserted to the first
GetTaskNamesInOrderFromLastKey(self, command, context) ==
    NamesLoop([i \in 1..Len(self) |-> self[Len(self) + 1 - i]], <<>>, 1, command, context)

GetTaskNamesInOrder(self, command, context) == NamesLoop(self, <<>>, 1, command, context)

-----------------------------------------------------------------------------
(* The manifests the model adds: for each id, the shapes of processingScope *)
(* and dependencies the code distinguishes                                  *)

OnlyCommands(cs) == WithCommands(EmptyDict, cs)
OnlyContexts(xs) == WithContexts(EmptyDict, xs)
Both(cs, xs) == WithContexts(WithCommands(EmptyDict, cs), xs)
DependsOn(ts) == WithTasks(EmptyDict, ts)

\* t1: the base task, with the restrictive shapes of processingScope (and the
\* key 'processingScopes', which only _extract_task_processing_scopes reads)
MenuT1 ==
    { Task("t1", Absent, ListOf(<<OnlyCommands({"c1"})>>), Absent),
      Task("t1", ListOf(<<Both({"c1"}, {"x1"}), OnlyContexts({"x2"})>>), Absent, Absent),
      Task("t1", ListOf(<<NullItem, NotDictItem, Both({"c2"}, {"x2"})>>), Absent, Absent),
      Task("t1", Absent, Absent, ListOf(<<DependsOn(<<"t1">>)>>)) }

\* t2: the shapes of a dependency clause on t1, and a dependency on t3
MenuT2 ==
    { Task("t2", Null, Absent, ListOf(<<OnlyCommands({"c1"}), DependsOn(<<"t1">>)>>)),
      Task("t2", ListOf(<<OnlyCommands({"c1"})>>), Absent,
           ListOf(<<WithContexts(DependsOn(<<"t1">>), {"x1"}),
                    WithContexts(WithCommands(DependsOn(<<"t1">>), {"c1"}), {"x1"})>>)),
      Task("t2", NotAList, Absent, ListOf(<<DependsOn(<<"t3">>)>>)) }

\* t3: several dependencies, in one clause and in two
MenuT3 ==
    { Task("t3", ListOf(<<EmptyDict>>), Absent, ListOf(<<DependsOn(<<"t2", "t1">>)>>)),
      Task("t3", Absent, Absent,
           ListOf(<<WithCommands(DependsOn(<<"t1">>), {"c2"}), DependsOn(<<"t2">>)>>)),
      Task("t3", ListOf(<<OnlyContexts({"x1"})>>), Absent, Null) }

\* t4: depends on two tasks of which one may depend on the other
MenuT4 ==
    { Task("t4", Absent, Absent, ListOf(<<DependsOn(<<"t1", "t2">>)>>)) }

TaskMenu == MenuT1 \cup MenuT2 \cup MenuT3 \cup MenuT4

-----------------------------------------------------------------------------
(* The objects of the other components, as their constructors leave them *)

\* VariableStore.__init__: self.variable_store = dict()
VariableStore == <<>>

\* StatePersistence.__init__: an empty state_cache; commits counts the commit()
\* calls the object has received
StatePersistence == [commits |-> 0, state_cache |-> <<>>]

\* WorkflowExecutor.__init__
WorkflowExecutor(general_error_hook) ==
    [ordered_workflow_steps |-> <<>>,
     command_to_action_map |-> <<>>,
     variable_store |-> VariableStore,
     general_error_hook |-> general_error_hook]

\* a Python value that is a str, and the value None
Str(s) == [py |-> "str", value |-> s]
NoneValue == [py |-> "NoneType", value |-> ""]

\* a Python value that is neither a str nor None
NotAStr == [py |-> "int", value |-> ""]

\* the strings of a list a constraint is taken from: the items that are not
\* None, are str and are not empty, in their order (lines 524-528)
RECURSIVE AcceptedStrings(_)
AcceptedStrings(items) ==
    IF items = <<>>
    THEN <<>>
    ELSE IF Head(items).py = "str" /\ Len(Head(items).value) > 0
    THEN <<Head(items)>> \o AcceptedStrings(Tail(items))
    ELSE AcceptedStrings(Tail(items))

\* constraints[key] filtered, an empty list when constraints is None or not a
\* dict, has no such key, or holds something that is not a list under it
SupportedFrom(constraints, key) ==
    IF constraints.py = "dict" /\ key \in DOMAIN constraints.items
          /\ constraints.items[key].kind = "list"
    THEN AcceptedStrings(constraints.items[key].items)
    ELSE <<>>

\* the actions supported when none is configured (line 544)
AllActions ==
    <<Str("CreateAction"), Str("RollbackAction"), Str("DeleteAction"),
      Str("UpdateAction"), Str("DescribeAction"), Str("DetectDriftAction")>>

\* a dict, and the constraints None
Dict(items) == [py |-> "dict", items |-> items]
ConstraintsNone == [py |-> "NoneType", items |-> <<>>]

\* TaskProcessingActionParameterValidation.__init__(constraints)
TaskProcessingActionParameterValidation(constraints) ==
    [constraints |->
        [SupportedCommands |-> SupportedFrom(constraints, "SupportedCommands"),
         SupportedContexts |-> SupportedFrom(constraints, "SupportedContexts"),
         SupportedActions |->
            IF Len(SupportedFrom(constraints, "SupportedActions")) = 0
            THEN AllActions
            ELSE SupportedFrom(constraints, "SupportedActions")]]

\* TaskProcessStore.__init__: self.task_processor_register = dict()
TaskProcessStore == <<>>

\* what a program that uses none of the library's hooks holds for them: the
\* defaults of Hook.run
InitHookObjects ==
    /\ parameter_validator = TaskProcessingActionParameterValidation(ConstraintsNone)
    /\ task_process_store = TaskProcessStore
    /\ hook_task = None

\* what a program that only uses a Tasks object holds besides it
InitOthers ==
    /\ variable_store = VariableStore
    /\ now = 0
    /\ executor = WorkflowExecutor("GeneralErrorHook")
    /\ persistence = StatePersistence
    /\ InitHookObjects

-----------------------------------------------------------------------------
(* The state machine: a Tasks object and the calls made on it *)

Call(op, task_name, command, context) ==
    [op |-> op, task_name |-> task_name, command |-> command, context |-> context]

\* Tasks.__init__
Init ==
    /\ tasks = <<>>
    /\ call = Call("__init__", "", "", "")
    /\ ret = NoReturn
    /\ InitOthers

\* tasks.add_task(task)
AddTask(task) ==
    /\ HasKey(tasks, task.name) \/ Len(tasks) < MaxTasks
    /\ tasks' = AddTaskEntry(tasks, task)
    /\ call' = Call("add_task", task.name, "", "")
    /\ ret' = NoReturn
    /\ UNCHANGED nonTasksVars

\* tasks.task_scoped_for_processing(task_name, command, context)
CallTaskScopedForProcessing(task_name, command, context) ==
    /\ call' = Call("task_scoped_for_processing", task_name, command, context)
    /\ ret' = TaskScopedForProcessing(tasks, task_name, command, context)
    /\ UNCHANGED <<tasks, nonTasksVars>>

\* tasks.get_task_dependencies_as_list_of_task_names(task_name, command, context)
CallGetTaskDependencies(task_name, command, context) ==
    /\ call' = Call("get_task_dependencies_as_list_of_task_names", task_name, command, context)
    /\ ret' = GetTaskDependenciesAsListOfTaskNames(tasks, task_name, command, context)
    /\ UNCHANGED <<tasks, nonTasksVars>>

\* tasks._task_ordering(current_processing_order=[], candidate_task_name, command, context)
CallTaskOrdering(candidate_task_name, command, context) ==
    /\ call' = Call("_task_ordering", candidate_task_name, command, context)
    /\ ret' = TaskOrdering(tasks, <<>>, candidate_task_name, command, context, 1)
    /\ UNCHANGED <<tasks, nonTasksVars>>

\* tasks.get_task_names_in_order(command, context)
CallGetTaskNamesInOrder(command, context) ==
    /\ call' = Call("get_task_names_in_order", "", command, context)
    /\ ret' = GetTaskNamesInOrder(tasks, command, context)
    /\ UNCHANGED <<tasks, nonTasksVars>>

Next ==
    \/ \E task \in TaskMenu : AddTask(task)
    \/ \E t \in TaskIds, c \in Commands, x \in Contexts : CallTaskScopedForProcessing(t, c, x)
    \/ \E t \in TaskIds, c \in Commands, x \in Contexts : CallGetTaskDependencies(t, c, x)
    \/ \E t \in TaskIds, c \in Commands, x \in Contexts : CallTaskOrdering(t, c, x)
    \/ \E c \in Commands, x \in Contexts : CallGetTaskNamesInOrder(c, x)

Spec == Init /\ [][Next]_vars

-----------------------------------------------------------------------------
(* Vocabulary of the properties: scope and active dependencies as the       *)
(* data model defines them, stated on the manifests and not on the loops    *)

\* a clause matches (command, context): each list it has holds the value
Matches(clause, command, context) ==
    /\ clause.hasCommands => command \in clause.commands
    /\ clause.hasContexts => context \in clause.contexts

Manifest(task_name) == tasks[KeyIndex(tasks, task_name)].TaskInstance

\* task_name is a task of the set and in scope for (command, context)
InScope(task_name, command, context) ==
    /\ HasKey(tasks, task_name)
    /\ LET ps == Manifest(task_name).processingScope IN
       \/ ps.kind # "list"
       \/ \E i \in 1..Len(ps.items) :
              ps.items[i].kind = "dict" /\ Matches(ps.items[i], command, context)

\* the dependency clauses of a task of the set
Clauses(task_name) ==
    IF HasKey(tasks, task_name) /\ Manifest(task_name).dependencies.kind = "list"
    THEN Manifest(task_name).dependencies.items
    ELSE <<>>

Active(clause, command, context) == clause.hasTasks /\ Matches(clause, command, context)

RECURSIVE Flatten(_)
Flatten(lists) == IF lists = <<>> THEN <<>> ELSE Head(lists) \o Flatten(Tail(lists))

\* the `tasks` of the active clauses, in clause order
ActiveDependencyList(task_name, command, context) ==
    LET IsActive(clause) == Active(clause, command, context)
        active == SelectSeq(Clauses(task_name), IsActive)
    IN Flatten([i \in 1..Len(active) |-> active[i].tasks])

ActiveDependencies(task_name, command, context) ==
    LET l == ActiveDependencyList(task_name, command, context) IN {l[i] : i \in 1..Len(l)}

\* every task named by a clause that has `tasks`, active or not
DeclaredDependencyList(task_name) ==
    LET HasTasks(clause) == clause.hasTasks
        declaring == SelectSeq(Clauses(task_name), HasTasks)
    IN Flatten([i \in 1..Len(declaring) |-> declaring[i].tasks])

DeclaredDependencies(task_name) ==
    LET l == DeclaredDependencyList(task_name) IN {l[i] : i \in 1..Len(l)}

IndexOf(l, x) == CHOOSE i \in 1..Len(l) : l[i] = x
NoDuplicates(l) == \A i, j \in 1..Len(l) : l[i] = l[j] => i = j

Ordered == call.op = "get_task_names_in_order" /\ ret.status = "return"

-----------------------------------------------------------------------------
(* C1 *)

\* C1: whenever get_task_names_in_order returns, every in-scope task D that is
\* an active dependency of an in-scope task T stands at a strictly smaller
\* index than T in the returned list (a return already excludes a cycle).
C1_DependenciesPrecede ==
    Ordered =>
        \A T, D \in TaskIds :
            ( /\ InScope(T, call.command, call.context)
              /\ InScope(D, call.command, call.context)
              /\ D \in ActiveDependencies(T, call.command, call.context) )
            => /\ Contains(ret.order, T)
               /\ Contains(ret.order, D)
               /\ IndexOf(ret.order, D) < IndexOf(ret.order, T)

\* a chain t3 -> t2 -> t1 added in the order t3, t2, t1 comes back reversed
C1_Witness ==
    /\ Ordered
    /\ Keys(tasks) = <<"t3", "t2", "t1">>
    /\ "t2" \in ActiveDependencies("t3", call.command, call.context)
    /\ "t1" \in ActiveDependencies("t2", call.command, call.context)
    /\ "t1" \notin ActiveDependencies("t3", call.command, call.context)
    /\ ret.order = <<"t1", "t2", "t3">>

-----------------------------------------------------------------------------
(* C2 *)

\* C2: whenever get_task_names_in_order returns, the list holds every in-scope
\* task exactly once and no other name.
C2_ExactlyTheInScopeTasks ==
    Ordered =>
        /\ NoDuplicates(ret.order)
        /\ \A T \in TaskIds :
               Contains(ret.order, T) <=> InScope(T, call.command, call.context)
        /\ \A i \in 1..Len(ret.order) : ret.order[i] \in TaskIds

\* the list _task_ordering builds for the first key repeats a name, and the
\* order returned for the three tasks is still free of duplicates
C2_Witness ==
    /\ Ordered
    /\ Len(tasks) = 3
    /\ Len(ret.order) = 3
    /\ LET sub == TaskOrdering(tasks, <<>>, tasks[1].id, call.command, call.context, 1) IN
       sub.status = "return" /\ ~NoDuplicates(sub.order)

-----------------------------------------------------------------------------
(* C3 *)

\* T is in scope and D, a task of the set, is an active dependency of T that is
\* out of scope
OutOfScopeDependency(T, D, command, context) ==
    /\ InScope(T, command, context)
    /\ HasKey(tasks, D)
    /\ ~InScope(D, command, context)
    /\ D \in ActiveDependencies(T, command, context)

\* the first name among the declared dependencies of T that is not in scope
\* ("" when there is none)
FirstNotInScope(T, command, context) ==
    LET l == DeclaredDependencyList(T)
        bad == {i \in 1..Len(l) : ~InScope(l[i], command, context)}
    IN IF bad = {} THEN "" ELSE l[CHOOSE i \in bad : \A j \in bad : i <= j]

\* every task named in a clause of an in-scope task is in scope
AllDeclaredInScope(command, context) ==
    \A T \in TaskIds :
        InScope(T, command, context) =>
            \A D \in DeclaredDependencies(T) : InScope(D, command, context)

\* C3 as stated: an in-scope T with an active out-of-scope dependency D makes
\* get_task_names_in_order, and _task_ordering started at T, raise the error
\* that names T and D (stated here only for calls that do not end in another
\* kind of error: an id missing from the set, recursion without bound).
C3_ErrorNamesTheTaskAndDependency ==
    \A T, D \in TaskIds :
        ( /\ \/ call.op = "get_task_names_in_order"
             \/ call.op = "_task_ordering" /\ call.task_name = T
          /\ OutOfScopeDependency(T, D, call.command, call.context)
          /\ ret.status \notin {"AttributeError", "RecursionError"} )
        => ret = Raise("Exception", T, D)

\* C3 amended: such a T and D make both calls fail without an order; the
\* out-of-scope error of get_task_names_in_order names an in-scope task and a
\* task declared by it that is out of scope; _task_ordering started at T names T
\* and the first declared dependency of T that is out of scope; and when every
\* declared dependency of every in-scope task is in scope no out-of-scope error
\* is raised.
C3_FailsNamingAnOutOfScopeDependency ==
    /\ \A T, D \in TaskIds :
        ( /\ \/ call.op = "get_task_names_in_order"
             \/ call.op = "_task_ordering" /\ call.task_name = T
          /\ OutOfScopeDependency(T, D, call.command, call.context) )
        => /\ ret.status \notin {"return", "none"}
           /\ ret.order = <<>>
           /\ ( /\ call.op = "_task_ordering"
                /\ HasKey(tasks, FirstNotInScope(T, call.command, call.context)) )
              => ret = Raise("Exception", T, FirstNotInScope(T, call.command, call.context))
    /\ ( call.op \in {"get_task_names_in_order", "_task_ordering"}
         /\ ret.status = "Exception" )
        => /\ InScope(ret.task, call.command, call.context)
           /\ ret.dep \in DeclaredDependencies(ret.task)
           /\ HasKey(tasks, ret.dep)
           /\ ~InScope(ret.dep, call.command, call.context)
    /\ ( call.op \in {"get_task_names_in_order", "_task_ordering"}
         /\ AllDeclaredInScope(call.command, call.context) )
        => ret.status # "Exception"

\* _task_ordering started at t2 raises the error naming t2 and t1
C3_Witness ==
    /\ call.op = "_task_ordering"
    /\ call.task_name = "t2"
    /\ OutOfScopeDependency("t2", "t1", call.command, call.context)
    /\ ret = Raise("Exception", "t2", "t1")

-----------------------------------------------------------------------------
(* C4, C5 *)

InScopeTasks(command, context) == {T \in TaskIds : InScope(T, command, context)}

\* the in-scope tasks reached from the set S along active dependencies
RECURSIVE Reached(_, _, _)
Reached(S, command, context) ==
    LET next == S \cup ( InScopeTasks(command, context)
                         \cap UNION {ActiveDependencies(T, command, context) : T \in S} )
    IN IF next = S THEN S ELSE Reached(next, command, context)

\* an in-scope task reaches itself along active dependencies
Cyclic(command, context) ==
    \E T \in InScopeTasks(command, context) :
        \E D \in InScopeTasks(command, context) \cap ActiveDependencies(T, command, context) :
            T \in Reached({D}, command, context)

\* C4: get_task_names_in_order terminates on every task set, cycles included:
\* it never recurses without bound, and with every declared dependency in scope
\* it ends with an order.
C4_CyclesEndSilently ==
    call.op = "get_task_names_in_order" =>
        /\ ret.status # "RecursionError"
        /\ AllDeclaredInScope(call.command, call.context) => ret.status = "return"

\* C5: when the active dependencies of the in-scope tasks contain a cycle,
\* get_task_names_in_order fails with the dedicated dependency-cycle error.
C5_CycleIsReported ==
    ( call.op = "get_task_names_in_order" /\ Cyclic(call.command, call.context) )
        => ret.status = "DependencyCycle"

-----------------------------------------------------------------------------
(* C6 *)

Depends == call.op = "get_task_dependencies_as_list_of_task_names"

\* C6: when get_task_dependencies_as_list_of_task_names returns, the list is
\* the concatenation, in clause order, of the `tasks` of exactly the active
\* clauses of the task.
C6_ConcatenationOfActiveClauses ==
    ( Depends /\ ret.status = "return" )
        => ret.order = ActiveDependencyList(call.task_name, call.command, call.context)

\* a non-empty list is returned for a task that also has an inactive clause
\* with `tasks`, which contributes nothing
C6_Witness ==
    /\ Depends
    /\ ret.status = "return"
    /\ ret.order # <<>>
    /\ \E i \in 1..Len(Clauses(call.task_name)) :
           /\ Clauses(call.task_name)[i].hasTasks
           /\ ~Active(Clauses(call.task_name)[i], call.command, call.context)

-----------------------------------------------------------------------------
(* C7 *)

\* C7 as stated: when every active dependency of a task of the set is in scope,
\* the call returns the active dependency list, whatever its inactive clauses
\* name (stated here for tasks whose declared dependencies are all in the set).
C7_OnlyActiveDependenciesChecked ==
    ( /\ Depends
      /\ HasKey(tasks, call.task_name)
      /\ \A D \in DeclaredDependencies(call.task_name) : HasKey(tasks, D)
      /\ \A D \in ActiveDependencies(call.task_name, call.command, call.context) :
             InScope(D, call.command, call.context) )
    => ret = ReturnList(ActiveDependencyList(call.task_name, call.command, call.context))

\* C7 amended: the scope check covers every task named in a clause that has
\* `tasks`, active or not: for a task of the set the call returns (the active
\* dependency list) exactly when every declared dependency is in scope, and
\* otherwise raises; a declared dependency of the set that is out of scope and
\* comes first raises the error naming the task and it.
C7_EveryDeclaredDependencyChecked ==
    ( Depends /\ HasKey(tasks, call.task_name) )
    => LET first == FirstNotInScope(call.task_name, call.command, call.context) IN
       /\ ret.status = "return"
            <=> \A D \in DeclaredDependencies(call.task_name) :
                    InScope(D, call.command, call.context)
       /\ ret.status = "return"
            => ret.order = ActiveDependencyList(call.task_name, call.command, call.context)
       /\ HasKey(tasks, first) => ret = Raise("Exception", call.task_name, first)

\* the call raises for a task whose active dependencies are all in scope: the
\* out-of-scope task is named by an inactive clause only
C7_Witness ==
    /\ Depends
    /\ HasKey(tasks, call.task_name)
    /\ ret.status = "Exception"
    /\ ret.task = call.task_name
    /\ HasKey(tasks, ret.dep)
    /\ ret.dep \notin ActiveDependencies(call.task_name, call.command, call.context)
    /\ \A D \in ActiveDependencies(call.task_name, call.command, call.context) :
           InScope(D, call.command, call.context)

-----------------------------------------------------------------------------
(* C8 *)

\* C8: when an in-scope task names, in any clause with `tasks`, a task of the
\* set that is out of scope, get_task_names_in_order raises and yields no
\* result, also when that clause does not match the command and context.
C8_DeclaredOutOfScopeAborts ==
    ( /\ call.op = "get_task_names_in_order"
      /\ \E T, D \in TaskIds :
             /\ InScope(T, call.command, call.context)
             /\ D \in DeclaredDependencies(T)
             /\ HasKey(tasks, D)
             /\ ~InScope(D, call.command, call.context) )
    => ret.status \notin {"return", "none"} /\ ret.order = <<>>

\* the order is refused although no active dependency of any in-scope task is
\* out of scope: the task named in the error comes from an inactive clause
C8_Witness ==
    /\ call.op = "get_task_names_in_order"
    /\ ret.status = "Exception"
    /\ ret.dep \notin ActiveDependencies(ret.task, call.command, call.context)
    /\ \A T, D \in TaskIds : ~OutOfScopeDependency(T, D, call.command, call.context)
    /\ ~Cyclic(call.command, call.context)

-----------------------------------------------------------------------------
(* C9 *)

\* C9: for a task of the set, task_scoped_for_processing returns true iff
\* processingScope is absent, null or not a list, or some list entry that is a
\* mapping matches; null and non-mapping entries never match.
C9_ScopeRule ==
    ( call.op = "task_scoped_for_processing" /\ HasKey(tasks, call.task_name) )
        => ret = ReturnBool(InScope(call.task_name, call.command, call.context))

\* true is returned for a list whose first entries are null and not a mapping
C9_Witness ==
    /\ call.op = "task_scoped_for_processing"
    /\ HasKey(tasks, call.task_name)
    /\ ret = ReturnBool(TRUE)
    /\ LET ps == Manifest(call.task_name).processingScope IN
       /\ ps.kind = "list"
       /\ Len(ps.items) = 3
       /\ ps.items[1].kind = "null"
       /\ ps.items[2].kind = "notdict"

-----------------------------------------------------------------------------
(* C10 *)

\* depth-first post-order: `visited` is the list so far; a task already in it
\* is left alone, otherwise its active dependencies are visited in list order
\* and then the task is appended (fuel bounds the descent)
RECURSIVE Visit(_, _, _, _, _)
RECURSIVE VisitAll(_, _, _, _, _)
Visit(visited, T, command, context, fuel) ==
    IF Contains(visited, T) \/ fuel = 0 THEN visited
    ELSE Append(VisitAll(visited, ActiveDependencyList(T, command, context),
                         command, context, fuel - 1), T)
VisitAll(visited, names, command, context, fuel) ==
    IF names = <<>> THEN visited
    ELSE VisitAll(Visit(visited, Head(names), command, context, fuel),
                  Tail(names), command, context, fuel)

\* the post-order over the in-scope tasks in insertion order
PostOrder(command, context) ==
    LET IsInScope(T) == InScope(T, command, context) IN
    VisitAll(<<>>, SelectSeq(Keys(tasks), IsInScope), command, context, MaxTasks + 1)

\* C10: the returned order is the depth-first post-order over the tasks in
\* insertion order, each task's active dependencies taken in clause order and
\* then in `tasks` order.
C10_DepthFirstPostOrder ==
    Ordered => ret.order = PostOrder(call.command, call.context)

\* two tasks without dependency between them keep their insertion order, and
\* the two dependencies of the first task come in the order it lists them
C10_Witness ==
    /\ Ordered
    /\ Keys(tasks) = <<"t3", "t1", "t2">>
    /\ ActiveDependencyList("t3", call.command, call.context) = <<"t2", "t1">>
    /\ ActiveDependencies("t2", call.command, call.context) = {}
    /\ ret.order = <<"t2", "t1", "t3">>

-----------------------------------------------------------------------------
(* C40 *)

\* an in-scope task names, in a clause with `tasks`, an id that was never added
DeclaresMissingDependency(command, context) ==
    \E T \in TaskIds :
        /\ InScope(T, command, context)
        /\ \E D \in DeclaredDependencies(T) : ~HasKey(tasks, D)

\* C40: every name in a list returned by get_task_names_in_order is the id of
\* a task of the set, and when an in-scope task declares a dependency id that
\* was never added the call fails and returns no order.
C40_MissingDependencyFails ==
    call.op = "get_task_names_in_order" =>
        /\ ret.status = "return" =>
               \A i \in 1..Len(ret.order) : HasKey(tasks, ret.order[i])
        /\ DeclaresMissingDependency(call.command, call.context) =>
               ret.status \notin {"return", "none"} /\ ret.order = <<>>

\* the call fails on the id that is missing, looked up by
\* task_scoped_for_processing, with every task of the set in scope
C40_Witness ==
    /\ call.op = "get_task_names_in_order"
    /\ DeclaresMissingDependency(call.command, call.context)
    /\ ret.status = "AttributeError"
    /\ ~HasKey(tasks, ret.task)
    /\ \A T \in TaskIds : HasKey(tasks, T) => InScope(T, call.command, call.context)

-----------------------------------------------------------------------------
(* C11: task ids are unique, and adding a task under an id already present  *)
(* is rejected and leaves the stored entry as it was                        *)

\* C11 (as the claim states it): in every add_task step the task set keeps at
\* most one entry per id, and when the id was already present the call ends in
\* an error and the entry stored under that id (task, dependencies, scopes) is
\* the one stored before. The code replaces the entry and returns None.
C11_DuplicateIdIsRejected ==
    [][call'.op = "add_task" =>
        /\ NoDuplicates(Keys(tasks'))
        /\ HasKey(tasks, call'.task_name) =>
            /\ ret'.status = "Exception"
            /\ tasks' = tasks]_vars

-----------------------------------------------------------------------------
(* VariableStore and Task, as the TaskProcessor uses them *)

\* VariableStore.add_variable: self.variable_store[variable_name] = copy.deepcopy(value)
AddVariable(self, variable_name, value) == (variable_name :> value) @@ self

\* variable_name in self.variable_store
HasVariable(self, variable_name) == variable_name \in DOMAIN self

\* VariableStore.get_variable of a name the store holds: a copy of the value
GetVariable(self, variable_name) == self[variable_name]

\* TaskProcessStore.register_task_processor: kept only when the api_version
\* has no processor yet
RegisterTaskProcessor(self, api_version, task_processor) ==
    IF HasVariable(self, api_version) THEN self ELSE AddVariable(self, api_version, task_processor)

\* a value of metadata.autoRollback: a bool, or something that is not a bool
Bool(b) == [kind |-> "bool", value |-> b]
NotABool == [kind |-> "str"]

\* Task(metadata={'name': n, 'autoRollback': autoRollback}); Absent: no such key
TaskWithAutoRollback(n, autoRollback) ==
    [py |-> "Task", name |-> n, autoRollback |-> autoRollback]

\* Task._create_task_id: metadata['name']
TaskId(task) == task.name

\* mutant: any value stored under autoRollback enables the rollback
AutoRollbackEnabledWhenPresent(task) == task.autoRollback.kind # "absent"

\* Task.auto_rollback_enabled
AutoRollbackEnabled(task) ==
    IF task.autoRollback.kind # "absent"
    THEN IF task.autoRollback.kind = "bool" THEN task.autoRollback.value ELSE FALSE
    ELSE FALSE

-----------------------------------------------------------------------------
(* TaskProcessor: the event journal *)

\* TaskProcessor.create_identifier
CreateIdentifier(task, variable_name) == TaskId(task) \o ":" \o variable_name

\* the dict add_event builds; timestamp is what datetime.now(timezone.utc) gave
Event(timestamp, event_label, event_description, task) ==
    [EventTimestamp |-> timestamp, EventLabel |-> event_label,
     EventDescription |-> event_description, TaskId |-> TaskId(task)]

\* TaskProcessor.init_event_variable: a copy of the store, with an empty journal
\* for the task when it has none
InitEventVariable(store, task) ==
    IF ~HasVariable(store, CreateIdentifier(task, "PROCESSING_EVENTS"))
    THEN AddVariable(store, CreateIdentifier(task, "PROCESSING_EVENTS"), <<>>)
    ELSE store

\* mutant: the journal is started afresh on every event
AddEventStartsAfresh(store, task, event_label, event_description, timestamp) ==
    AddVariable(store, CreateIdentifier(task, "PROCESSING_EVENTS"),
                <<Event(timestamp, event_label, event_description, task)>>)

\* mutant: the new event goes to the front of the journal
AddEventInFront(store, task, event_label, event_description, timestamp) ==
    LET event_variable_name == CreateIdentifier(task, "PROCESSING_EVENTS")
        updated_variable_store == InitEventVariable(store, task)
    IN  AddVariable(updated_variable_store, event_variable_name,
                    <<Event(timestamp, event_label, event_description, task)>>
                        \o GetVariable(updated_variable_store, event_variable_name))

\* TaskProcessor.add_event: works on a copy of the store it is given and
\* returns that copy
AddEvent(store, task, event_label, event_description, timestamp) ==
    LET event_variable_name == CreateIdentifier(task, "PROCESSING_EVENTS")
        updated_variable_store ==
            IF ~HasVariable(store, event_variable_name)
            THEN InitEventVariable(store, task)
            ELSE store
        events == Append(GetVariable(updated_variable_store, event_variable_name),
                         Event(timestamp, event_label, event_description, task))
    IN  AddVariable(updated_variable_store, event_variable_name, events)

-----------------------------------------------------------------------------
(* TaskProcessor.process_task *)

\* the action names process_task compares `action` with
ActionNames == {"CreateAction", "DeleteAction", "UpdateAction",
                "DescribeAction", "DetectDriftAction", "RollbackAction"}

\* the processor method an action name stands for
Method(action) ==
    CASE action = "CreateAction" -> "create_action"
      [] action = "DeleteAction" -> "delete_action"
      [] action = "UpdateAction" -> "update_action"
      [] action = "DescribeAction" -> "describe_action"
      [] action = "DetectDriftAction" -> "detect_drift_action"
      [] action = "RollbackAction" -> "rollback_action"

\* the stem of the event labels journaled for an action
EventPrefix(action) ==
    CASE action = "CreateAction" -> "CREATE_ACTION"
      [] action = "DeleteAction" -> "DELETE_ACTION"
      [] action = "UpdateAction" -> "UPDATE_ACTION"
      [] action = "DescribeAction" -> "DESCRIBE_ACTION"
      [] action = "DetectDriftAction" -> "DETECT_DRIFT_ACTION"
      [] action = "RollbackAction" -> "ROLLBACK_ACTION"

\* The action methods are the client's. What one does with the store object it
\* is handed: return it, return it with a variable added, raise, or write a
\* variable into the object and then raise.
Behaviours == {"return", "extend", "raise", "write_raise"}

\* one call of an action method: how it ends, the store it returns, and the
\* content of the object it was handed once it has ended
ActionMethod(behaviour, task, handed) ==
    [outcome |-> IF behaviour \in {"return", "extend"} THEN "return" ELSE "raise",
     returned |-> IF behaviour = "extend"
                  THEN AddVariable(handed, CreateIdentifier(task, "ResourceData"), "created")
                  ELSE handed,
     handed_after |-> IF behaviour = "write_raise"
                      THEN AddVariable(handed, CreateIdentifier(task, "ResourceData"), "partial")
                      ELSE handed]

\* the record kept of one call of an action method: the store it was handed
MethodCall(method, handed, outcome) ==
    [method |-> method, variable_store |-> handed, outcome |-> outcome]

\* the state of process_task after the if/elif chain on `action`: it has
\* returned, or holds these locals
Phase(returned, store, exception_raised, final_exception_message, calls) ==
    [returned |-> returned, variable_store |-> store,
     exception_raised |-> exception_raised,
     final_exception_message |-> final_exception_message, calls |-> calls]

\* the two exits of process_task; variable_store is the local of that name
ReturnStore(store, calls) ==
    [status |-> "return", variable_store |-> store, message |-> "", calls |-> calls]
RaiseException(message, store, calls) ==
    [status |-> "Exception", variable_store |-> store, message |-> message, calls |-> calls]

FailedMessage(action) ==
    "Action \"" \o action \o "\" failed with exception - please see logs for details."

\* if action == 'CreateAction': the method is handed a deep copy of the store
CreateBranch(task, store, behaviour, timestamp) ==
    LET started == AddEvent(store, task, "CREATE_ACTION_START", "Start of processing", timestamp)
        m == ActionMethod(behaviour, task, started)
        calls == <<MethodCall("create_action", started, m.outcome)>>
    IN  IF m.outcome = "return"
        THEN Phase(TRUE, AddEvent(m.returned, task, "CREATE_ACTION_DONE",
                                  "Start of processing", timestamp),
                   FALSE, "", calls)
        ELSE Phase(FALSE, AddEvent(started, task, "CREATE_ACTION_ERROR", "EXCEPTION", timestamp),
                   TRUE, FailedMessage("CreateAction"), calls)

\* elif action == 'DeleteAction' / 'UpdateAction': the method is handed the
\* store object itself
DeleteOrUpdateBranch(task, store, action, behaviour, timestamp) ==
    LET started == AddEvent(store, task, EventPrefix(action) \o "_START",
                            "Start of processing", timestamp)
        m == ActionMethod(behaviour, task, started)
        calls == <<MethodCall(Method(action), started, m.outcome)>>
    IN  IF m.outcome = "return"
        THEN Phase(TRUE, AddEvent(m.returned, task, EventPrefix(action) \o "_DONE",
                                  "End of processing", timestamp),
                   FALSE, "", calls)
        ELSE Phase(FALSE, AddEvent(m.handed_after, task, EventPrefix(action) \o "_ERROR",
                                   "EXCEPTION", timestamp),
                   TRUE, FailedMessage(action), calls)

\* elif action == 'DescribeAction' / 'DetectDriftAction': the except clause
\* only sets the message
DescribeOrDetectDriftBranch(task, store, action, behaviour, timestamp) ==
    LET started == AddEvent(store, task, EventPrefix(action) \o "_START",
                            "Start of processing", timestamp)
        m == ActionMethod(behaviour, task, started)
        calls == <<MethodCall(Method(action), started, m.outcome)>>
    IN  IF m.outcome = "return"
        THEN Phase(TRUE, AddEvent(m.returned, task, EventPrefix(action) \o "_DONE",
                                  "End of processing", timestamp),
                   FALSE, "", calls)
        ELSE Phase(FALSE, m.handed_after, FALSE,
                   FailedMessage(action)
                       \o " Even if configured, no Auto Rollback was performed on this action.",
                   calls)

\* mutant: a name the chain does not know is processed as a CreateAction
BranchWithDefault(action) ==
    IF action \in {"CreateAction", "DeleteAction", "UpdateAction",
                   "DescribeAction", "DetectDriftAction"}
    THEN action
    ELSE IF action = "RollbackAction" THEN "none" ELSE "CreateAction"

\* the branch of the if/elif chain of lines 1097-1148 that `action` selects
Branch(action) ==
    IF action \in {"CreateAction", "DeleteAction", "UpdateAction",
                   "DescribeAction", "DetectDriftAction"}
    THEN action
    ELSE "none"

\* the if/elif chain of lines 1097-1148
FirstPhase(task, store, action, behaviour, timestamp) ==
    CASE Branch(action) = "CreateAction" ->
            CreateBranch(task, store, behaviour, timestamp)
      [] Branch(action) \in {"DeleteAction", "UpdateAction"} ->
            DeleteOrUpdateBranch(task, store, Branch(action), behaviour, timestamp)
      [] Branch(action) \in {"DescribeAction", "DetectDriftAction"} ->
            DescribeOrDetectDriftBranch(task, store, Branch(action), behaviour, timestamp)
      [] OTHER ->
            Phase(FALSE, store, FALSE,
                  "Unrecognized action \"" \o action \o "\" provided", <<>>)

\* if action == 'RollbackAction' and exception_raised is False
ExplicitRollback(task, first, behaviour, timestamp) ==
    LET started == AddEvent(first.variable_store, task, "ROLLBACK_ACTION_START",
                            "Start of processing", timestamp)
        m == ActionMethod(behaviour, task, started)
        calls == first.calls \o <<MethodCall("rollback_action", started, m.outcome)>>
    IN  IF m.outcome = "return"
        THEN ReturnStore(AddEvent(m.returned, task, "ROLLBACK_ACTION_DONE",
                                  "End of processing", timestamp), calls)
        ELSE RaiseException(
                 FailedMessage("RollbackAction")
                     \o " Even if configured, no additional Rollback was performed on this action.",
                 m.handed_after, calls)

\* mutant: the rollback is not told which action it follows
RollbackFromUnmarked(store, task, action) == store

\* variable_store.add_variable(variable_name='<task id>:RollbackFrom', value=action)
RollbackFromMarked(store, task, action) ==
    AddVariable(store, TaskId(task) \o ":RollbackFrom", action)

\* elif auto_rollback is True and action != 'RollbackAction' and exception_raised is True
AutoRollback(task, first, action, rollback_behaviour, timestamp) ==
    LET marked == RollbackFromMarked(first.variable_store, task, action)
        started == AddEvent(marked, task, "ROLLBACK_ACTION_START",
                            "Start of processing", timestamp)
        m == ActionMethod(rollback_behaviour, task, started)
        calls == first.calls \o <<MethodCall("rollback_action", started, m.outcome)>>
    IN  IF m.outcome = "return"
        THEN RaiseException("{} Auto Rollback action was attempted.",
                            AddEvent(m.returned, task, "ROLLBACK_ACTION_DONE",
                                     "End of processing", timestamp),
                            calls)
        ELSE RaiseException("{} Auto Rollback action was attempted, but also raised an exception.",
                            m.handed_after, calls)

\* TaskProcessor.process_task; behaviour is what the method of `action` does,
\* rollback_behaviour what rollback_action does when it is called automatically
ProcessTask(task, store, action, behaviour, rollback_behaviour, timestamp) ==
    LET called == AddEvent(store, task, "PROCESS_TASK_CALLED", "Ready For Processing", timestamp)
        auto_rollback == AutoRollbackEnabled(task)
        first == FirstPhase(task, called, action, behaviour, timestamp)
    IN  IF first.returned
        THEN ReturnStore(first.variable_store, first.calls)
        ELSE IF action = "RollbackAction" /\ ~first.exception_raised
        THEN ExplicitRollback(task, first, behaviour, timestamp)
        ELSE IF auto_rollback /\ action # "RollbackAction" /\ first.exception_raised
        THEN AutoRollback(task, first, action, rollback_behaviour, timestamp)
        ELSE RaiseException(first.final_exception_message, first.variable_store, first.calls)

-----------------------------------------------------------------------------
(* The state machine of a TaskProcessor: a caller holds a VariableStore,     *)
(* calls process_task with it and may keep the store that is returned        *)

\* most events of one task's journal in a store that is passed to a call
MaxEvents == 4

\* the tasks processed: every kind of metadata.autoRollback
ProcessorTaskMenu ==
    {TaskWithAutoRollback("t1", v) : v \in {Absent, Bool(TRUE), Bool(FALSE), NotABool}}

\* the journal of a task in a store; empty when the store has none
Journal(store, task) ==
    IF HasVariable(store, CreateIdentifier(task, "PROCESSING_EVENTS"))
    THEN store[CreateIdentifier(task, "PROCESSING_EVENTS")]
    ELSE <<>>

\* a call on the processor: the store is the one passed in
ProcessorCall(op, task, action, store) ==
    [op |-> op, task |-> task, action |-> action, variable_store |-> store]

\* p = TaskProcessor(api_version); variable_store = VariableStore()
InitProcessor ==
    /\ tasks = <<>>
    /\ call = ProcessorCall("__init__", TaskWithAutoRollback("", Absent), "", VariableStore)
    /\ ret = NoReturn
    /\ InitOthers

\* p.process_task(task=task, variable_store=variable_store, action=action)
CallProcessTask(task, action, behaviour, rollback_behaviour) ==
    /\ Len(Journal(variable_store, task)) < MaxEvents
    /\ call' = ProcessorCall("process_task", task, action, variable_store)
    /\ ret' = ProcessTask(task, variable_store, action, behaviour, rollback_behaviour, now)
    /\ UNCHANGED <<tasks, variable_store, now, executor, persistence, hookVars>>

\* variable_store = p.process_task(...) / p.add_event(...): the caller keeps
\* the store that the call returned
KeepReturnedStore ==
    /\ call.op \in {"process_task", "add_event"}
    /\ ret.status = "return"
    /\ variable_store' = ret.variable_store
    /\ call' = ProcessorCall("keep", call.task, "", variable_store)
    /\ ret' = NoReturn
    /\ UNCHANGED <<tasks, now, executor, persistence, hookVars>>

NextProcessor ==
    \/ \E task \in ProcessorTaskMenu, action \in ActionNames \cup {"UnknownAction"},
          behaviour \in Behaviours, rollback_behaviour \in Behaviours :
            CallProcessTask(task, action, behaviour, rollback_behaviour)
    \/ KeepReturnedStore

SpecProcessor == InitProcessor /\ [][NextProcessor]_vars

-----------------------------------------------------------------------------
(* Vocabulary of the properties of process_task *)

Processed == call.op = "process_task"

\* the labels of a journal, in order
Labels(journal) == [i \in 1..Len(journal) |-> journal[i].EventLabel]

\* the journal of the processed task: in the store passed in, and in the store
\* process_task held when it returned or raised
JournalBefore == Journal(call.variable_store, call.task)
JournalAfter == Journal(ret.variable_store, call.task)

\* the events the call journaled: what JournalAfter holds beyond JournalBefore
Journaled == SubSeq(JournalAfter, Len(JournalBefore) + 1, Len(JournalAfter))

\* the method of the requested action was called and returned / raised
ActionReturned ==
    /\ Processed /\ call.action \in ActionNames
    /\ Len(ret.calls) > 0 /\ ret.calls[1].outcome = "return"
ActionRaised ==
    /\ Processed /\ call.action \in ActionNames
    /\ Len(ret.calls) > 0 /\ ret.calls[1].outcome = "raise"

\* the calls of rollback_action made by the process_task call
RollbackCalls == {i \in 1..Len(ret.calls) : ret.calls[i].method = "rollback_action"}

\* label a stands before label b in a sequence of labels
Before(labels, a, b) ==
    \E i, j \in 1..Len(labels) : i < j /\ labels[i] = a /\ labels[j] = b

-----------------------------------------------------------------------------
(* C12: a successful action journals CALLED, START, DONE *)

\* C12: when the method of one of the six actions returns, process_task returns
\* and the task's journal in the returned store is the journal of the store
\* passed in followed by exactly PROCESS_TASK_CALLED, <ACTION>_START,
\* <ACTION>_DONE, in that order
C12_SuccessJournalsCalledStartDone ==
    ActionReturned =>
        /\ ret.status = "return"
        /\ Len(JournalAfter) = Len(JournalBefore) + 3
        /\ SubSeq(JournalAfter, 1, Len(JournalBefore)) = JournalBefore
        /\ Labels(Journaled) = <<"PROCESS_TASK_CALLED",
                                 EventPrefix(call.action) \o "_START",
                                 EventPrefix(call.action) \o "_DONE">>

\* a DeleteAction that returned an extended store, processed on a store whose
\* journal already held events
C12_Witness ==
    /\ ActionReturned
    /\ call.action = "DeleteAction"
    /\ Len(JournalBefore) > 0
    /\ HasVariable(ret.variable_store, "t1:ResourceData")
    /\ ~HasVariable(call.variable_store, "t1:ResourceData")
    /\ ret.status = "return"

-----------------------------------------------------------------------------
(* C13: a failing action journals <ACTION>_ERROR *)

\* C13 (as the claim states it): whenever the method of one of the six actions
\* raises, <ACTION>_ERROR is among the events the call journaled, and the store
\* handed to an automatic rollback already holds it. The code journals no
\* _ERROR event for DescribeAction, DetectDriftAction and RollbackAction.
C13_FailureJournalsError ==
    ActionRaised =>
        /\ Contains(Labels(Journaled), EventPrefix(call.action) \o "_ERROR")
        /\ Len(ret.calls) > 1 =>
              Contains(Labels(Journal(ret.calls[2].variable_store, call.task)),
                       EventPrefix(call.action) \o "_ERROR")

-----------------------------------------------------------------------------
(* C14: the automatic rollback *)

\* what a call journals up to the start of an automatic rollback
CallErrorStart(action) ==
    <<"PROCESS_TASK_CALLED", EventPrefix(action) \o "_START",
      EventPrefix(action) \o "_ERROR", "ROLLBACK_ACTION_START">>

\* C14: with autoRollback true and a raising Create, Update or Delete,
\* rollback_action is called exactly once, on a store that holds
\* <task id>:RollbackFrom = the action and to whose journal
\* ROLLBACK_ACTION_START was added last; ROLLBACK_ACTION_DONE is journaled
\* after it iff the rollback returned; and process_task raises in either case
C14_AutoRollbackOnceThenRaise ==
    (/\ ActionRaised
     /\ call.action \in {"CreateAction", "UpdateAction", "DeleteAction"}
     /\ call.task.autoRollback = Bool(TRUE)) =>
        /\ Cardinality(RollbackCalls) = 1
        /\ Len(ret.calls) = 2 /\ ret.calls[2].method = "rollback_action"
        /\ LET handed == ret.calls[2].variable_store
               before == CallErrorStart(call.action)
           IN  /\ HasVariable(handed, TaskId(call.task) \o ":RollbackFrom")
               /\ handed[TaskId(call.task) \o ":RollbackFrom"] = call.action
               /\ Labels(Journal(handed, call.task)) = Labels(JournalBefore) \o before
               /\ ret.calls[2].outcome = "return" =>
                      Labels(Journaled) = before \o <<"ROLLBACK_ACTION_DONE">>
               /\ ret.calls[2].outcome = "raise" => Labels(Journaled) = before
        /\ ret.status = "Exception"

\* an UpdateAction raised, and so did the automatic rollback
C14_Witness ==
    /\ ActionRaised
    /\ call.action = "UpdateAction"
    /\ call.task.autoRollback = Bool(TRUE)
    /\ Len(ret.calls) = 2
    /\ ret.calls[2].outcome = "raise"
    /\ ret.status = "Exception"

-----------------------------------------------------------------------------
(* C15: when the automatic rollback happens *)

\* rollback_action was called although the requested action is not RollbackAction
AutomaticRollback == call.action # "RollbackAction" /\ RollbackCalls # {}

\* C15: a process_task call calls rollback_action at most once, and calls it
\* automatically iff metadata.autoRollback is the boolean true, the action is
\* Create, Update or Delete, and the method of that action raised
C15_AutoRollbackIffEnabledAndRaised ==
    Processed =>
        /\ Cardinality(RollbackCalls) <= 1
        /\ AutomaticRollback <=>
              /\ call.task.autoRollback = Bool(TRUE)
              /\ call.action \in {"CreateAction", "UpdateAction", "DeleteAction"}
              /\ ActionRaised

\* a CreateAction raised for a task whose autoRollback is not a boolean: the
\* call raised and rollback_action was not called
C15_Witness ==
    /\ ActionRaised
    /\ call.action = "CreateAction"
    /\ call.task.autoRollback = NotABool
    /\ RollbackCalls = {}
    /\ ret.status = "Exception"

-----------------------------------------------------------------------------
(* C16: an action name outside the six *)

\* C16: process_task with an unknown action name raises the unrecognized-action
\* error, calls no action method, and journals PROCESS_TASK_CALLED only
C16_UnknownActionRaisesWithoutCalls ==
    (Processed /\ call.action \notin ActionNames) =>
        /\ ret.status = "Exception"
        /\ ret.message = "Unrecognized action \"" \o call.action \o "\" provided"
        /\ ret.calls = <<>>
        /\ Labels(Journaled) = <<"PROCESS_TASK_CALLED">>

\* an unknown action for a task with autoRollback true: no rollback either
C16_Witness ==
    /\ Processed
    /\ call.action = "UnknownAction"
    /\ call.task.autoRollback = Bool(TRUE)
    /\ ret.status = "Exception"
    /\ ret.calls = <<>>

-----------------------------------------------------------------------------
(* C17: what the caller can read after process_task has raised *)

\* C17 (as the claim states it): after a CreateAction with autoRollback true
\* raised and its rollback succeeded, the store the caller holds has
\* <task id>:RollbackFrom = 'CreateAction' and a journal with
\* CREATE_ACTION_ERROR, then ROLLBACK_ACTION_START, then ROLLBACK_ACTION_DONE.
\* The code journals into stores of its own, which are lost when it raises.
C17_JournalReadableAfterFailure ==
    (/\ ActionRaised
     /\ call.action = "CreateAction"
     /\ call.task.autoRollback = Bool(TRUE)
     /\ ret.status = "Exception"
     /\ Len(ret.calls) = 2 /\ ret.calls[2].outcome = "return") =>
        /\ HasVariable(variable_store, TaskId(call.task) \o ":RollbackFrom")
        /\ variable_store[TaskId(call.task) \o ":RollbackFrom"] = "CreateAction"
        /\ Before(Labels(Journal(variable_store, call.task)),
                  "CREATE_ACTION_ERROR", "ROLLBACK_ACTION_START")
        /\ Before(Labels(Journal(variable_store, call.task)),
                  "ROLLBACK_ACTION_START", "ROLLBACK_ACTION_DONE")

-----------------------------------------------------------------------------
(* C37: what a failed action leaves in the store *)

\* the store as it was when the method of the action was called
StoreBeforeAction == ret.calls[1].variable_store

\* that store with the _ERROR event, <task id>:RollbackFrom and
\* ROLLBACK_ACTION_START added by process_task
StoreExpectedByRollback ==
    AddEvent(RollbackFromMarked(AddEvent(StoreBeforeAction, call.task,
                                         EventPrefix(call.action) \o "_ERROR",
                                         "EXCEPTION", now),
                                call.task, call.action),
             call.task, "ROLLBACK_ACTION_START", "Start of processing", now)

\* C37 (as the claim states it): when a Create, Update or Delete action
\* raises, what it wrote to the store before raising is discarded: the store
\* handed to rollback_action is the store as it was before the action was
\* called plus the _ERROR event, <task id>:RollbackFrom and
\* ROLLBACK_ACTION_START; and the caller's store object is not modified.
\* delete_action and update_action are handed the store object itself.
C37_FailedActionWritesDiscarded ==
    ( /\ ActionRaised
      /\ call.action \in {"CreateAction", "UpdateAction", "DeleteAction"} ) =>
        /\ variable_store = call.variable_store
        /\ \A i \in RollbackCalls :
               ret.calls[i].variable_store = StoreExpectedByRollback

-----------------------------------------------------------------------------
(* The state machine of the event journal: a caller adds events and         *)
(* variables to the store it holds while the clock advances                 *)

\* latest reading of the clock
MaxClock == 1

\* the tasks events are journaled for
EventTaskMenu == {TaskWithAutoRollback("t1", Absent), TaskWithAutoRollback("t2", Absent)}

\* a call of add_event: the store is the one passed in
EventCall(task, event_label, store) ==
    [op |-> "add_event", task |-> task, event_label |-> event_label, variable_store |-> store]

\* p.add_event(variable_store=variable_store, task=task): event_label and
\* event_description take their defaults
CallAddEvent(task) ==
    /\ Len(Journal(variable_store, task)) < MaxEvents
    /\ call' = EventCall(task, "INFO_EVENT", variable_store)
    /\ ret' = ReturnStore(AddEvent(variable_store, task, "INFO_EVENT",
                                   "No Details Provided", now), <<>>)
    /\ UNCHANGED <<tasks, variable_store, now, executor, persistence, hookVars>>

\* variable_store.add_variable(variable_name='ResourceData:<task id>', value='test_resource')
CallAddVariable(task) ==
    /\ ~HasVariable(variable_store, "ResourceData:" \o TaskId(task))
    /\ variable_store' = AddVariable(variable_store, "ResourceData:" \o TaskId(task),
                                     "test_resource")
    /\ call' = ProcessorCall("add_variable", task, "", variable_store)
    /\ ret' = NoReturn
    /\ UNCHANGED <<tasks, now, executor, persistence, hookVars>>

\* time passes between two calls: datetime.now(timezone.utc) reads later
Tick ==
    /\ now < MaxClock
    /\ now' = now + 1
    /\ UNCHANGED <<tasks, call, ret, variable_store, executor, persistence, hookVars>>

NextEvents ==
    \/ \E task \in EventTaskMenu : CallAddEvent(task)
    \/ \E task \in EventTaskMenu : CallAddVariable(task)
    \/ KeepReturnedStore
    \/ Tick

SpecEvents == InitProcessor /\ [][NextEvents]_vars

-----------------------------------------------------------------------------
(* C18: the journal is append-only and ordered *)

\* the timestamps of a journal never decrease
NonDecreasing(journal) ==
    \A i, j \in 1..Len(journal) :
        i < j => journal[i].EventTimestamp <= journal[j].EventTimestamp

\* C18: add_event returns a store in which the task's journal is the journal of
\* the store passed in (empty when it had none) with one record, of the given
\* label and task, added at the end; every other variable, other tasks'
\* journals included, is as in the store passed in; the store object passed in
\* is as it was; and the timestamps of the journal never decrease
C18_AddEventAppendsOne ==
    call.op = "add_event" =>
        LET event_variable_name == CreateIdentifier(call.task, "PROCESSING_EVENTS")
            before == Journal(call.variable_store, call.task)
            after == Journal(ret.variable_store, call.task)
        IN  /\ ret.status = "return"
            /\ HasVariable(ret.variable_store, event_variable_name)
            /\ Len(after) = Len(before) + 1
            /\ SubSeq(after, 1, Len(before)) = before
            /\ after[Len(after)].EventLabel = call.event_label
            /\ after[Len(after)].TaskId = TaskId(call.task)
            /\ DOMAIN ret.variable_store
                   = DOMAIN call.variable_store \cup {event_variable_name}
            /\ \A name \in DOMAIN call.variable_store \ {event_variable_name} :
                   ret.variable_store[name] = call.variable_store[name]
            /\ variable_store = call.variable_store
            /\ NonDecreasing(after)

\* a later event added for t1 to a store that holds an earlier event of t1,
\* a journal of t2 and a variable of the caller
C18_Witness ==
    /\ call.op = "add_event"
    /\ TaskId(call.task) = "t1"
    /\ Len(Journal(call.variable_store, call.task)) = 1
    /\ Journal(call.variable_store, call.task)[1].EventTimestamp = 0
    /\ Journal(ret.variable_store, call.task)[2].EventTimestamp = 1
    /\ HasVariable(call.variable_store, "t2:PROCESSING_EVENTS")
    /\ HasVariable(call.variable_store, "ResourceData:t1")

-----------------------------------------------------------------------------
(* Hooks, as WorkflowExecutor.execute_workflow calls them *)

\* A hook of the client whose run() takes the keyword variable_manager, the
\* name under which execute_workflow passes the store.
ClientHook(name) == [name |-> name, accepts_variable_manager |-> TRUE]

\* A hook with the signature of Hook.run (task, parameters, parameter_validator,
\* persistence, variable_store, task_process_store), as the hooks of the
\* library have it: it has no parameter named variable_manager.
LibraryHook(name) == [name |-> name, accepts_variable_manager |-> FALSE]

\* hook.run(task=..., parameters=..., variable_manager=handed, ...): a call with
\* a keyword the method does not have raises TypeError before the body runs;
\* a client hook raises for the (hook, task) pairs in `raises` and otherwise
\* returns a copy of the store it was handed with a variable of its own
HookRun(hook, task_id, handed, raises) ==
    IF ~hook.accepts_variable_manager
    THEN [outcome |-> "raise", kind |-> "TypeError", returned |-> handed]
    ELSE IF <<hook.name, task_id>> \in raises
    THEN [outcome |-> "raise", kind |-> "Exception", returned |-> handed]
    ELSE [outcome |-> "return", kind |-> "",
          returned |-> AddVariable(handed, hook.name \o ":" \o task_id, "done")]

\* the record kept of one call made by execute_workflow
RunCall(hook, task_id, handed, parameters, outcome) ==
    [op |-> "run", hook |-> hook.name, task |-> task_id, variable_store |-> handed,
     parameters |-> parameters, outcome |-> outcome]
CommitCall(task_id) ==
    [op |-> "commit", hook |-> "", task |-> task_id, variable_store |-> VariableStore,
     parameters |-> <<>>, outcome |-> "return"]
GeneralErrorHookCall(task_id, handed, parameters) ==
    [op |-> "general_error_hook.run", hook |-> "GeneralErrorHook", task |-> task_id,
     variable_store |-> handed, parameters |-> parameters, outcome |-> "raise"]

-----------------------------------------------------------------------------
(* WorkflowExecutor.execute_workflow *)

\* isinstance(GeneralErrorHook, Hook): the first argument is the class
\* GeneralErrorHook, not self.general_error_hook, and a class object is not an
\* instance of Hook
ClassGeneralErrorHookIsAHook == FALSE

\* the state of the loops: whether a hook failed, the name of that hook, the
\* calls made so far, and the locals updated_variable_store and parameters
Progress(failed, hook_name, trace, updated_variable_store, parameters) ==
    [failed |-> failed, hook |-> hook_name, trace |-> trace,
     updated_variable_store |-> updated_variable_store, parameters |-> parameters]

\* mutant: the except clause swallows the exception of the hook
HookFailureSwallowed(self, hook, task_id, trace, updated_variable_store, parameters) ==
    Progress(FALSE, hook.name, trace, updated_variable_store, parameters)

\* the except clause of lines 1707-1724, up to the final raise (the call of
\* general_error_hook.run passes variable_manager as well)
HookFailure(self, hook, task_id, trace, updated_variable_store, parameters) ==
    IF self.general_error_hook # "None" /\ ClassGeneralErrorHookIsAHook
    THEN LET with_stacktrace == AddVariable(parameters, "ExceptionStacktrace", "traceback")
         IN  Progress(TRUE, hook.name,
                      Append(trace, GeneralErrorHookCall(task_id, self.variable_store,
                                                         with_stacktrace)),
                      updated_variable_store, with_stacktrace)
    ELSE Progress(TRUE, hook.name, trace, updated_variable_store, parameters)

\* for hook in self.ordered_workflow_steps, from step i on
RECURSIVE StagesLoop(_, _, _, _, _, _, _)
StagesLoop(self, task_id, i, trace, updated_variable_store, parameters, raises) ==
    IF i > Len(self.ordered_workflow_steps)
    THEN Progress(FALSE, "", trace, updated_variable_store, parameters)
    ELSE LET hook == self.ordered_workflow_steps[i]
             r == HookRun(hook, task_id, self.variable_store, raises)
             called == Append(trace, RunCall(hook, task_id, self.variable_store,
                                             parameters, r.outcome))
         IN  IF r.outcome = "return"
             THEN StagesLoop(self, task_id, i + 1, called, r.returned, parameters, raises)
             ELSE HookFailure(self, hook, task_id, called, updated_variable_store, parameters)

\* mutant: the state is not committed after a task
WithoutCommit(trace, task_id) == trace

\* self.persistence.commit(), after the stages of a task
WithCommit(trace, task_id) == Append(trace, CommitCall(task_id))

\* for task_name in self.tasks.get_task_names_in_order(...), from name i on
RECURSIVE ExecutorTasksLoop(_, _, _, _, _, _, _)
ExecutorTasksLoop(self, names, i, trace, updated_variable_store, parameters, raises) ==
    IF i > Len(names)
    THEN Progress(FALSE, "", trace, updated_variable_store, parameters)
    ELSE LET staged == StagesLoop(self, names[i], 1, trace, updated_variable_store,
                                  parameters, raises)
         IN  IF staged.failed
             THEN staged
             ELSE ExecutorTasksLoop(self, names, i + 1, WithCommit(staged.trace, names[i]),
                                    staged.updated_variable_store, parameters, raises)

\* the exits of execute_workflow
WorkflowReturn(store, progress) ==
    [status |-> "return", variable_store |-> store, message |-> "",
     trace |-> progress.trace, parameters |-> progress.parameters]
WorkflowRaise(kind, message, progress) ==
    [status |-> kind, variable_store |-> VariableStore, message |-> message,
     trace |-> progress.trace, parameters |-> progress.parameters]

\* WorkflowExecutor.execute_workflow; self_tasks is self.tasks
ExecuteWorkflow(self, self_tasks, command, context, raises) ==
    IF Len(self.ordered_workflow_steps) = 0
    THEN WorkflowRaise("Exception", "No more steps to execute",
                       Progress(FALSE, "", <<>>, self.variable_store, <<>>))
    ELSE IF ~HasVariable(self.command_to_action_map, command)
    THEN WorkflowRaise("Exception", "Unrecognized command \"" \o command \o "\"",
                       Progress(FALSE, "", <<>>, self.variable_store, <<>>))
    ELSE LET parameters == [Action |-> self.command_to_action_map[command],
                            Command |-> command, Context |-> context]
             names == GetTaskNamesInOrder(self_tasks, command, context)
         IN  IF names.status # "return"
             THEN WorkflowRaise(names.status, "",
                                Progress(FALSE, "", <<>>, self.variable_store, parameters))
             ELSE LET done == ExecutorTasksLoop(self, names.order, 1, <<>>,
                                                self.variable_store, parameters, raises)
                  IN  IF done.failed
                      THEN WorkflowRaise("Exception",
                               "Failure to process hook \"" \o done.hook
                                   \o "\" - cannot continue", done)
                      ELSE WorkflowReturn(done.updated_variable_store, done)

-----------------------------------------------------------------------------
(* The state machine of a WorkflowExecutor: tasks, stages and commands are  *)
(* registered, and workflows are executed                                   *)

\* most stages registered with one executor
MaxSteps == 2

\* execute_workflow is called while the persistence has seen fewer commits
MaxCommits == 2

\* the tasks given to the executor: t2 depends on t1, t3 is scoped to c1
WorkflowTaskMenu ==
    { Task("t1", Absent, Absent, Absent),
      Task("t2", Absent, Absent, ListOf(<<DependsOn(<<"t1">>)>>)),
      Task("t3", ListOf(<<OnlyCommands({"c1"})>>), Absent, Absent) }

\* the stages: two hooks of the client and one with the library's signature
HookMenu == {ClientHook("h1"), ClientHook("h2"), LibraryHook("TaskProcessingHook")}

\* what the client's hooks do in one run: none raises, or one does for one task
RaisesMenu ==
    {{}} \cup {{<<hook_name, task_id>>} : hook_name \in {"h1", "h2"},
                                          task_id \in {"t1", "t2", "t3"}}

\* a call on the executor: persistence is the object as it was when called
ExecutorCall(op, command, context, persistence_before) ==
    [op |-> op, command |-> command, context |-> context,
     persistence |-> persistence_before]

\* WorkflowExecutor(persistence=..., general_error_hook=...)
InitWorkflow ==
    /\ tasks = <<>>
    /\ call = ExecutorCall("__init__", "", "", StatePersistence)
    /\ ret = NoReturn
    /\ variable_store = VariableStore
    /\ now = 0
    /\ \E general_error_hook \in {"GeneralErrorHook", "None"} :
          executor = WorkflowExecutor(general_error_hook)
    /\ persistence = StatePersistence
    /\ InitHookObjects

\* executor.add_task(task): self.tasks.add_task(task=task)
ExecutorAddTask(task) == AddTask(task)

\* executor.add_workflow_step_by_hook_instance(hook)
AddWorkflowStepByHookInstance(hook) ==
    /\ Len(executor.ordered_workflow_steps) < MaxSteps
    /\ executor' = [executor EXCEPT !.ordered_workflow_steps = Append(@, hook)]
    /\ call' = ExecutorCall("add_workflow_step_by_hook_instance", "", "", persistence)
    /\ ret' = NoReturn
    /\ UNCHANGED <<tasks, variable_store, now, persistence, hookVars>>

\* executor.link_command_to_create_action(command)
LinkCommandToCreateAction(command) ==
    /\ executor' = [executor EXCEPT !.command_to_action_map =
                        AddVariable(@, command, "CreateAction")]
    /\ call' = ExecutorCall("link_command_to_create_action", command, "", persistence)
    /\ ret' = NoReturn
    /\ UNCHANGED <<tasks, variable_store, now, persistence, hookVars>>

\* the commit() calls among the calls of a run
Commits(trace) == {i \in 1..Len(trace) : trace[i].op = "commit"}

\* executor.execute_workflow(command, context); the persistence object keeps
\* every commit() it received, whether the run returns or raises
CallExecuteWorkflow(command, context, raises) ==
    /\ persistence.commits < MaxCommits
    /\ call' = ExecutorCall("execute_workflow", command, context, persistence)
    /\ ret' = ExecuteWorkflow(executor, tasks, command, context, raises)
    /\ persistence' = [persistence EXCEPT !.commits = @ + Cardinality(Commits(ret'.trace))]
    /\ UNCHANGED <<tasks, variable_store, now, executor, hookVars>>

NextWorkflow ==
    \/ \E task \in WorkflowTaskMenu : ExecutorAddTask(task)
    \/ \E hook \in HookMenu : AddWorkflowStepByHookInstance(hook)
    \/ LinkCommandToCreateAction("c1")
    \/ \E command \in Commands, raises \in RaisesMenu :
            CallExecuteWorkflow(command, "x1", raises)

SpecWorkflow == InitWorkflow /\ [][NextWorkflow]_vars

-----------------------------------------------------------------------------
(* Vocabulary of the properties of execute_workflow *)

Executed == call.op = "execute_workflow"

\* what get_task_names_in_order(command, context) gives for the call
WorkflowOrder == GetTaskNamesInOrder(tasks, call.command, call.context)

\* a call of the run, without the objects it was handed
Step(op, hook_name, task_id) == <<op, hook_name, task_id>>
Steps(trace) == [i \in 1..Len(trace) |-> Step(trace[i].op, trace[i].hook, trace[i].task)]

\* the calls of a complete run: for each task in order, every registered stage
\* in registration order, then the commit
StepsOfTask(task_id) ==
    [j \in 1..Len(executor.ordered_workflow_steps) |->
        Step("run", executor.ordered_workflow_steps[j].name, task_id)]
        \o <<Step("commit", "", task_id)>>
CompleteRun(order) == Flatten([i \in 1..Len(order) |-> StepsOfTask(order[i])])

IsPrefix(p, q) == Len(p) <= Len(q) /\ SubSeq(q, 1, Len(p)) = p

\* a hook raised in the run: the last call of a stage did not return
HookRaised ==
    /\ Executed
    /\ \E i \in 1..Len(ret.trace) : ret.trace[i].op = "run" /\ ret.trace[i].outcome = "raise"

-----------------------------------------------------------------------------
(* C19: tasks are processed serially, with one commit after each *)

\* C19: the calls execute_workflow makes are, for each task in the order of
\* get_task_names_in_order, every registered stage in registration order and
\* then one commit(), before any stage of the next task: all of them when the
\* run returns, a beginning of them that ends with the raising stage when a
\* hook raises; and the persistence has received the commits of the tasks
\* completed before the failure on top of those it had
C19_SerialStagesThenCommit ==
    (Executed /\ WorkflowOrder.status = "return") =>
        /\ IsPrefix(Steps(ret.trace), CompleteRun(WorkflowOrder.order))
        /\ ret.status = "return" => Steps(ret.trace) = CompleteRun(WorkflowOrder.order)
        /\ ret.status # "return" /\ ret.trace # <<>> =>
              /\ ret.trace[Len(ret.trace)].op = "run"
              /\ ret.trace[Len(ret.trace)].outcome = "raise"
        /\ \A i \in 1..Len(ret.trace) :
              ret.trace[i].op = "run" /\ i < Len(ret.trace) => ret.trace[i].outcome = "return"
        /\ persistence.commits = call.persistence.commits + Cardinality(Commits(ret.trace))

\* a run of two stages over three tasks in which the second stage raised for
\* the last task: the two earlier tasks are committed
C19_Witness ==
    /\ Executed
    /\ ret.status = "Exception"
    /\ Len(executor.ordered_workflow_steps) = 2
    /\ WorkflowOrder.status = "return" /\ Len(WorkflowOrder.order) = 3
    /\ Len(ret.trace) = 8
    /\ Cardinality(Commits(ret.trace)) = 2
    /\ persistence.commits = call.persistence.commits + 2

-----------------------------------------------------------------------------
(* C20: the general error hook *)

\* the calls of the general error hook made by the run
GeneralErrorHookCalls ==
    {i \in 1..Len(ret.trace) : ret.trace[i].op = "general_error_hook.run"}

\* C20 (as the claim states it): when a hook raises in a run of an executor
\* that has a general error hook, parameters['ExceptionStacktrace'] is set and
\* the general error hook is called exactly once, with the failing task and
\* those parameters. The code tests isinstance(GeneralErrorHook, Hook), which
\* is false, and skips both.
C20_ErrorHookCalledOnce ==
    (HookRaised /\ executor.general_error_hook # "None") =>
        /\ "ExceptionStacktrace" \in DOMAIN ret.parameters
        /\ Cardinality(GeneralErrorHookCalls) = 1
        /\ \A i \in GeneralErrorHookCalls :
              /\ i = Len(ret.trace)
              /\ ret.trace[i].task = ret.trace[i - 1].task
              /\ "ExceptionStacktrace" \in DOMAIN ret.trace[i].parameters

-----------------------------------------------------------------------------
(* C21: a raising hook ends the run *)

\* the calls of the run in which a stage raised
RaisingCalls ==
    {i \in 1..Len(ret.trace) : ret.trace[i].op = "run" /\ ret.trace[i].outcome = "raise"}

\* C21: once a hook raises during execute_workflow, no later stage of the same
\* task and no stage of a later task is invoked, commit() is not called for the
\* failing task, and execute_workflow raises 'Failure to process hook "<name>"
\* - cannot continue' instead of returning a store
C21_RaisingHookEndsTheRun ==
    HookRaised =>
        /\ \A i \in RaisingCalls :
              /\ \A j \in 1..Len(ret.trace) :
                    j > i => ret.trace[j].op \notin {"run", "commit"}
              /\ \A j \in 1..Len(ret.trace) :
                    ret.trace[j].op = "commit" => ret.trace[j].task # ret.trace[i].task
              /\ ret.message = "Failure to process hook \"" \o ret.trace[i].hook
                                    \o "\" - cannot continue"
        /\ ret.status = "Exception"
        /\ persistence.commits = call.persistence.commits + Cardinality(Commits(ret.trace))

\* the first of two stages raised for the second of three tasks: the first
\* task is committed, and nothing follows the raising call
C21_Witness ==
    /\ HookRaised
    /\ Len(executor.ordered_workflow_steps) = 2
    /\ WorkflowOrder.status = "return" /\ Len(WorkflowOrder.order) = 3
    /\ Len(ret.trace) = 4
    /\ ret.trace[4].task = WorkflowOrder.order[2]
    /\ ret.trace[4].hook = executor.ordered_workflow_steps[1].name
    /\ ret.trace[4].outcome = "raise"
    /\ ret.status = "Exception"

-----------------------------------------------------------------------------
(* C22: the variable store handed from hook to hook *)

\* the calls of stages made by the run
RunCalls == {i \in 1..Len(ret.trace) : ret.trace[i].op = "run"}

\* the call of a stage that immediately precedes call j, 0 when j is the first
PrecedingRunCall(j) ==
    LET earlier == {i \in RunCalls : i < j}
    IN  IF earlier = {} THEN 0 ELSE CHOOSE i \in earlier : \A k \in earlier : k <= i

\* what the stage of call i returned: the store it was handed, with its variable
ReturnedByCall(i) ==
    AddVariable(ret.trace[i].variable_store,
                ret.trace[i].hook \o ":" \o ret.trace[i].task, "done")

\* C22 (as the claim states it): the store handed to each hook invocation is
\* the store returned by the immediately preceding hook invocation, the
\* executor's store for the first one, so that a variable written by an earlier
\* stage or an earlier task is seen by the later ones. The code hands
\* self.variable_store, which it never updates, to every hook.
C22_StoreThreadsThroughTheRun ==
    Executed =>
        \A j \in RunCalls :
            /\ PrecedingRunCall(j) = 0 =>
                  ret.trace[j].variable_store = executor.variable_store
            /\ PrecedingRunCall(j) # 0 =>
                  /\ ret.trace[j].variable_store = ReturnedByCall(PrecedingRunCall(j))
                  /\ \A i \in RunCalls :
                        i < j => HasVariable(ret.trace[j].variable_store,
                                             ret.trace[i].hook \o ":" \o ret.trace[i].task)

-----------------------------------------------------------------------------
(* The state machine of a WorkflowExecutor whose stages are the hooks of    *)
(* the library, registered in the order a workflow runs them                *)

\* the hooks of the library: each overrides Hook.run with its signature
BuiltinStages ==
    << LibraryHook("ResolveTaskSpecVariablesHook"),
       LibraryHook("TaskProcessingHook"),
       LibraryHook("TaskPostProcessingStateUpdateHook") >>

\* the apiVersion of the manifests given to the executor
ManifestApiVersion == "v1"

\* executor.add_workflow_step_by_hook_instance(hook), for the next hook of
\* the library
AddBuiltinWorkflowStep ==
    /\ Len(executor.ordered_workflow_steps) < Len(BuiltinStages)
    /\ executor' = [executor EXCEPT !.ordered_workflow_steps =
                        Append(@, BuiltinStages[Len(@) + 1])]
    /\ call' = ExecutorCall("add_workflow_step_by_hook_instance", "", "", persistence)
    /\ ret' = NoReturn
    /\ UNCHANGED <<tasks, variable_store, now, persistence, hookVars>>

\* task_process_store.register_task_processor(processor), on the store the
\* executor was constructed with
RegisterProcessorOfExecutor ==
    /\ task_process_store' = RegisterTaskProcessor(task_process_store, ManifestApiVersion,
                                                   "processor")
    /\ call' = ExecutorCall("register_task_processor", "", "", persistence)
    /\ ret' = NoReturn
    /\ UNCHANGED <<tasks, variable_store, now, executor, persistence,
                   parameter_validator, hook_task>>

\* no client hook is registered, so none raises
NextBuiltinWorkflow ==
    \/ \E task \in WorkflowTaskMenu : ExecutorAddTask(task)
    \/ AddBuiltinWorkflowStep
    \/ RegisterProcessorOfExecutor
    \/ LinkCommandToCreateAction("c1")
    \/ \E command \in Commands : CallExecuteWorkflow(command, "x1", {})

SpecBuiltinWorkflow == InitWorkflow /\ [][NextBuiltinWorkflow]_vars

-----------------------------------------------------------------------------
(* C36: a workflow of the library's hooks *)

\* the run the claim is about: the three hooks of the library are the stages,
\* the command is linked to an action, a processor is registered for the
\* manifests' apiVersion, and the order of the tasks can be computed
BuiltinWorkflowRan ==
    /\ Executed
    /\ executor.ordered_workflow_steps = BuiltinStages
    /\ HasVariable(executor.command_to_action_map, call.command)
    /\ HasVariable(task_process_store, ManifestApiVersion)
    /\ WorkflowOrder.status = "return"

\* C36 (as the claim states it): such a run returns a variable store without
\* raising, having invoked every stage for every in-scope task. The call
\* hook.run(..., variable_manager=...) names a parameter that run does not
\* have, so the first stage of the first task raises TypeError.
C36_BuiltinWorkflowReturns ==
    BuiltinWorkflowRan =>
        /\ ret.status = "return"
        /\ Steps(ret.trace) = CompleteRun(WorkflowOrder.order)
        /\ \A i \in RunCalls : ret.trace[i].outcome = "return"

-----------------------------------------------------------------------------
(* TaskProcessingActionParameterValidation *)

\* parameters that are None, and parameters that are not a dict
ParametersNone == [py |-> "NoneType", items |-> <<>>]
ParametersNotADict == [py |-> "list", items |-> <<>>]

\* lines 575-589: parameters[key] when the key is there and holds a str that
\* is not empty, None otherwise
ParameterOrNone(parameters, key) ==
    IF key \in DOMAIN parameters.items
          /\ parameters.items[key].py = "str"
          /\ Len(parameters.items[key].value) > 0
    THEN parameters.items[key]
    ELSE NoneValue

\* the strings of lines 610 and 615
CatchAllStrs == <<Str("*"), Str("ALL"), Str("ANY")>>

\* for catch_all_str in ('*', 'ALL', 'ANY'): if value != catch_all_str: return
\* False -- TRUE when the loop, from string i on, returns False
RECURSIVE CatchAllLoopReturnsFalse(_, _)
CatchAllLoopReturnsFalse(value, i) ==
    IF i > Len(CatchAllStrs)
    THEN FALSE
    ELSE IF value # CatchAllStrs[i]
    THEN TRUE
    ELSE CatchAllLoopReturnsFalse(value, i + 1)

\* validation_passed, lines 593-600: the two lists the values are looked up in.
\* Line 600 assigns the supported contexts to final_command_constraints.
FinalConstraints(self, command, context) ==
    LET commands_first ==
            IF Len(self.constraints.SupportedCommands) = 0
            THEN <<command>>
            ELSE self.constraints.SupportedCommands
    IN  IF Len(self.constraints.SupportedContexts) = 0
        THEN [final_command_constraints |-> commands_first,
              final_context_constraints |-> <<context>>]
        ELSE [final_command_constraints |-> self.constraints.SupportedContexts,
              final_context_constraints |-> <<>>]

\* TaskProcessingActionParameterValidation.validation_passed(parameters)
ValidationPassed(self, parameters) ==
    IF parameters.py = "NoneType"
    THEN FALSE
    ELSE IF parameters.py # "dict"
    THEN FALSE
    ELSE LET command == ParameterOrNone(parameters, "Command")
             context == ParameterOrNone(parameters, "Context")
             action == ParameterOrNone(parameters, "Action")
             final == FinalConstraints(self, command, context)
         IN  IF /\ ~Contains(final.final_command_constraints, command)
                /\ CatchAllLoopReturnsFalse(command, 1)
             THEN FALSE
             ELSE IF /\ ~Contains(final.final_context_constraints, context)
                     /\ CatchAllLoopReturnsFalse(context, 1)
             THEN FALSE
             ELSE IF ~Contains(self.constraints.SupportedActions, action)
             THEN FALSE
             ELSE TRUE

-----------------------------------------------------------------------------
(* The state machine of a validator: it is constructed from constraints,    *)
(* commands and contexts are added, and parameters are validated            *)

\* most strings in a list of supported commands or contexts
MaxSupported == 2

\* a list and something that is not a list, as values of a constraints dict
ListValue(items) == [kind |-> "list", items |-> items]
NotAListValue == [kind |-> "str", items |-> <<>>]

\* the constraints a validator is constructed from
ConstraintsMenu ==
    { ConstraintsNone,
      [py |-> "str", items |-> <<>>],
      Dict(<<>>),
      Dict("SupportedCommands" :> ListValue(<<Str("c1")>>)),
      Dict("SupportedContexts" :> ListValue(<<Str("x1")>>)),
      Dict("SupportedCommands" :> ListValue(<<Str("c1"), NoneValue, Str(""), NotAStr>>)
             @@ "SupportedContexts" :> ListValue(<<Str("x1")>>)),
      Dict("SupportedCommands" :> NotAListValue
             @@ "SupportedActions" :> ListValue(<<Str("DeleteAction")>>)) }

\* the values a parameter is given
CommandValues == {Str("c1"), Str("x1"), Str("*"), Str("ALL"), Str(""), NoneValue}
ContextValues == {Str("x1"), Str("x2"), Str("ANY"), Str(""), NotAStr}
ActionValues == {Str("CreateAction"), Str("UnknownAction")}

\* a dict with one more key, unless the value stands for a key that is absent
WithParameter(items, key, value) ==
    IF value = Absent THEN items ELSE (key :> value) @@ items

\* the parameters handed to validation_passed: None, a list, and the dicts in
\* which each of Command, Context and Action is there or not
ValidatedParameters ==
    {ParametersNone, ParametersNotADict}
        \cup { Dict(WithParameter(WithParameter(WithParameter(<<>>, "Command", command),
                                                "Context", context), "Action", action)) :
                  command \in CommandValues \cup {Absent},
                  context \in ContextValues \cup {Absent},
                  action \in ActionValues \cup {Absent} }

ValidatorCall(op, parameters) == [op |-> op, parameters |-> parameters]

\* TaskProcessingActionParameterValidation(constraints=...)
InitValidation ==
    /\ tasks = <<>>
    /\ call = ValidatorCall("__init__", ParametersNone)
    /\ ret = NoReturn
    /\ variable_store = VariableStore
    /\ now = 0
    /\ executor = WorkflowExecutor("GeneralErrorHook")
    /\ persistence = StatePersistence
    /\ \E constraints \in ConstraintsMenu :
          parameter_validator = TaskProcessingActionParameterValidation(constraints)
    /\ task_process_store = TaskProcessStore
    /\ hook_task = None

validatorFrame == <<tasks, variable_store, now, executor, persistence,
                    task_process_store, hook_task>>

\* validator.add_command(command)
AddCommand(command) ==
    /\ Len(parameter_validator.constraints.SupportedCommands) < MaxSupported
    /\ parameter_validator' =
          IF command.py = "str" /\ Len(command.value) > 0
          THEN [parameter_validator EXCEPT !.constraints.SupportedCommands = Append(@, command)]
          ELSE parameter_validator
    /\ call' = ValidatorCall("add_command", Dict("Command" :> command))
    /\ ret' = NoReturn
    /\ UNCHANGED validatorFrame

\* validator.add_context(context)
AddContext(context) ==
    /\ Len(parameter_validator.constraints.SupportedContexts) < MaxSupported
    /\ parameter_validator' =
          IF context.py = "str" /\ Len(context.value) > 0
          THEN [parameter_validator EXCEPT !.constraints.SupportedContexts = Append(@, context)]
          ELSE parameter_validator
    /\ call' = ValidatorCall("add_context", Dict("Context" :> context))
    /\ ret' = NoReturn
    /\ UNCHANGED validatorFrame

\* validator.validation_passed(parameters)
CallValidationPassed(parameters) ==
    /\ call' = ValidatorCall("validation_passed", parameters)
    /\ ret' = ReturnBool(ValidationPassed(parameter_validator, parameters))
    /\ UNCHANGED <<parameter_validator, validatorFrame>>

NextValidation ==
    \/ \E command \in {Str("c1"), Str("*"), Str("")} : AddCommand(command)
    \/ \E context \in {Str("x1"), NotAStr} : AddContext(context)
    \/ \E parameters \in ValidatedParameters : CallValidationPassed(parameters)

SpecValidation == InitValidation /\ [][NextValidation]_vars

-----------------------------------------------------------------------------
(* Vocabulary of the properties of validation_passed *)

Validated == call.op = "validation_passed"

\* parameters is a dict that holds a str that is not empty under key
PresentNonEmpty(parameters, key) ==
    /\ parameters.py = "dict"
    /\ key \in DOMAIN parameters.items
    /\ parameters.items[key].py = "str"
    /\ parameters.items[key].value # ""

\* the value under key is one of the catch-all strings
IsCatchAll(parameters, key) ==
    /\ PresentNonEmpty(parameters, key)
    /\ parameters.items[key].value \in {"*", "ALL", "ANY"}

\* the value under key is in the configured list, or the list is empty
MemberOrUnconfigured(parameters, key, supported) ==
    Len(supported) = 0 \/ Contains(supported, parameters.items[key])

-----------------------------------------------------------------------------
(* C26: what validation_passed accepts *)

\* C26 (as the claim states it): validation_passed returns true iff Command,
\* Context and Action are each present as a str that is not empty, Command is
\* in SupportedCommands or that list is empty, Context is in SupportedContexts
\* or that list is empty, and Action is in SupportedActions. Stated for values
\* that are not catch-all strings. The code accepts a missing Command or
\* Context when its list is empty, and rejects everything once
\* SupportedContexts is not empty.
C26_ValidationPassedIffPresentAndSupported ==
    (/\ Validated
     /\ ~IsCatchAll(call.parameters, "Command")
     /\ ~IsCatchAll(call.parameters, "Context")) =>
        (ret.flag <=>
            /\ PresentNonEmpty(call.parameters, "Command")
            /\ PresentNonEmpty(call.parameters, "Context")
            /\ PresentNonEmpty(call.parameters, "Action")
            /\ MemberOrUnconfigured(call.parameters, "Command",
                                    parameter_validator.constraints.SupportedCommands)
            /\ MemberOrUnconfigured(call.parameters, "Context",
                                    parameter_validator.constraints.SupportedContexts)
            /\ Contains(parameter_validator.constraints.SupportedActions,
                        call.parameters.items["Action"]))

-----------------------------------------------------------------------------
(* C27: the catch-all strings *)

\* C27 (as the claim states it): a Command or Context that is '*', 'ALL' or
\* 'ANY' passes its membership check whatever the configured list holds, so
\* validation_passed returns true when the other two values pass theirs. The
\* loop of lines 610-613 returns False for every value, since no value equals
\* all three strings.
C27_CatchAllPassesUnconditionally ==
    (/\ Validated
     /\ PresentNonEmpty(call.parameters, "Command")
     /\ PresentNonEmpty(call.parameters, "Context")
     /\ PresentNonEmpty(call.parameters, "Action")
     /\ Contains(parameter_validator.constraints.SupportedActions,
                 call.parameters.items["Action"])
     /\ \/ IsCatchAll(call.parameters, "Command")
        \/ MemberOrUnconfigured(call.parameters, "Command",
                                parameter_validator.constraints.SupportedCommands)
     /\ \/ IsCatchAll(call.parameters, "Context")
        \/ MemberOrUnconfigured(call.parameters, "Context",
                                parameter_validator.constraints.SupportedContexts)
     /\ \/ IsCatchAll(call.parameters, "Command")
        \/ IsCatchAll(call.parameters, "Context")) =>
        ret.flag

-----------------------------------------------------------------------------
(* TaskProcessingHook *)

\* Task(api_version, kind, metadata={'name': n}, spec): what the hook reads
TaskWithSpec(n, api_version, spec) ==
    [py |-> "Task", name |-> n, autoRollback |-> Absent,
     api_version |-> api_version, spec |-> spec]

\* lines 1299-1301: task.spec, unless the store has 'ResolvedSpec:<task_id>',
\* and then the value read is variable_store['ResolvedSpec']
ResolvedSpecLookup(task, store) ==
    IF HasVariable(store, "ResolvedSpec:" \o TaskId(task))
    THEN IF HasVariable(store, "ResolvedSpec")
         THEN [status |-> "return", task_resolved_spec |-> GetVariable(store, "ResolvedSpec")]
         ELSE [status |-> "KeyError", task_resolved_spec |-> task.spec]
    ELSE [status |-> "return", task_resolved_spec |-> task.spec]

\* the record kept of a call of task_processor.process_task
Dispatch(task, action, task_resolved_spec) ==
    [task |-> TaskId(task), action |-> action, task_resolved_spec |-> task_resolved_spec]

\* what run returns or raises: the store, the calls of the processor's
\* methods and the calls of process_task
HookOutcome(status, store, message, calls, dispatched) ==
    [status |-> status, variable_store |-> store, message |-> message,
     calls |-> calls, dispatched |-> dispatched]

\* TaskProcessingHook.run; behaviour and rollback_behaviour are what the
\* processor's methods do when called
TaskProcessingHookRun(task, parameters, validator, store, process_store, behaviour, rollback_behaviour, timestamp) ==
    IF ~HasVariable(process_store, task.api_version)
    THEN HookOutcome("Exception", store,
                     "No processor found for API \"" \o task.api_version \o "\"", <<>>, <<>>)
    ELSE LET lookup == ResolvedSpecLookup(task, store)
         IN  IF lookup.status # "return"
             THEN HookOutcome(lookup.status, store, "'ResolvedSpec'", <<>>, <<>>)
             ELSE IF ValidationPassed(validator, parameters)
             THEN LET action == parameters.items["Action"].value
                      processed == ProcessTask(task, store, action, behaviour,
                                               rollback_behaviour, timestamp)
                  IN  HookOutcome(processed.status, processed.variable_store,
                                  processed.message, processed.calls,
                                  <<Dispatch(task, action, lookup.task_resolved_spec)>>)
             ELSE HookOutcome("return", store, "", <<>>, <<>>)

-----------------------------------------------------------------------------
(* The state machine of a TaskProcessingHook: processors are registered,    *)
(* variables are added to the caller's store, and the hook is run           *)

\* the tasks handed to the hook
HookTaskMenu ==
    { TaskWithSpec("t1", "v1", "spec of t1"), TaskWithSpec("t2", "v2", "spec of t2") }

\* the resolved specs a store may hold, by variable name
ResolvedSpecMenu ==
    { <<"ResolvedSpec:t1", "resolved spec of t1">>,
      <<"ResolvedSpec:t2", "resolved spec of t2">>,
      <<"ResolvedSpec", "resolved spec of t2">>,
      <<"ResolvedSpec", "resolved spec of t1">> }

\* the parameters handed to the hook: as execute_workflow builds them, with an
\* action no processor has, and without an action
HookParametersMenu ==
    { Dict(WithParameter(WithParameter(WithParameter(<<>>, "Command", Str(command)),
                                       "Context", Str("x1")), "Action", action)) :
          command \in Commands, action \in ActionValues \cup {Absent} }

HookCall(op, task_given, parameters) ==
    [op |-> op, task |-> task_given, parameters |-> parameters]

InitTaskProcessingHook ==
    /\ tasks = <<>>
    /\ call = HookCall("__init__", None, ParametersNone)
    /\ ret = NoReturn
    /\ variable_store = VariableStore
    /\ now = 0
    /\ executor = WorkflowExecutor("GeneralErrorHook")
    /\ persistence = StatePersistence
    /\ \E constraints \in {ConstraintsNone,
                           Dict("SupportedCommands" :> ListValue(<<Str("c1")>>))} :
          parameter_validator = TaskProcessingActionParameterValidation(constraints)
    /\ task_process_store = TaskProcessStore
    /\ hook_task = None

\* task_process_store.register_task_processor(task_processor)
CallRegisterTaskProcessor(api_version) ==
    /\ task_process_store' = RegisterTaskProcessor(task_process_store, api_version, "processor")
    /\ call' = HookCall("register_task_processor", None, ParametersNone)
    /\ ret' = NoReturn
    /\ UNCHANGED <<tasks, variable_store, now, executor, persistence,
                   parameter_validator, hook_task>>

\* variable_store.add_variable(variable_name, value), by an earlier hook
CallAddResolvedSpec(variable_name, value) ==
    /\ variable_store' = AddVariable(variable_store, variable_name, value)
    /\ call' = HookCall("add_variable", None, ParametersNone)
    /\ ret' = NoReturn
    /\ UNCHANGED <<tasks, now, executor, persistence, hookVars>>

\* TaskProcessingHook().run(task, parameters, parameter_validator, persistence,
\* variable_store, task_process_store)
CallTaskProcessingHookRun(task_given, parameters, behaviour) ==
    /\ call' = HookCall("run", task_given, parameters)
    /\ ret' = TaskProcessingHookRun(task_given, parameters, parameter_validator,
                                    variable_store, task_process_store,
                                    behaviour, "return", now)
    /\ UNCHANGED <<tasks, variable_store, now, executor, persistence, hookVars>>

NextTaskProcessingHook ==
    \/ \E api_version \in {"v1", "v2"} : CallRegisterTaskProcessor(api_version)
    \/ \E variable \in ResolvedSpecMenu : CallAddResolvedSpec(variable[1], variable[2])
    \/ \E task_given \in HookTaskMenu, parameters \in HookParametersMenu,
          behaviour \in {"extend", "raise"} :
            CallTaskProcessingHookRun(task_given, parameters, behaviour)

SpecTaskProcessingHook == InitTaskProcessingHook /\ [][NextTaskProcessingHook]_vars

-----------------------------------------------------------------------------
(* Vocabulary of the properties of TaskProcessingHook.run *)

\* the hook was run for a task whose api_version has a processor
HookRanWithProcessor ==
    /\ call.op = "run"
    /\ HasVariable(task_process_store, call.task.api_version)

HookValidationPassed == ValidationPassed(parameter_validator, call.parameters)

-----------------------------------------------------------------------------
(* C23: the resolved spec handed to the dispatcher *)

\* C23 (as the claim states it): the hook passes to process_task the value
\* stored under 'ResolvedSpec:<task_id>' of the task being processed when that
\* variable is present and task.spec when it is absent, and the lookup never
\* fails nor yields another task's value. The code tests for
\* 'ResolvedSpec:<task_id>' and then reads the key 'ResolvedSpec'.
C23_DispatchesResolvedSpecOfTheTask ==
    HookRanWithProcessor =>
        /\ ret.status # "KeyError"
        /\ \A i \in 1..Len(ret.dispatched) :
              ret.dispatched[i].task_resolved_spec =
                  IF HasVariable(variable_store, "ResolvedSpec:" \o TaskId(call.task))
                  THEN GetVariable(variable_store, "ResolvedSpec:" \o TaskId(call.task))
                  ELSE call.task.spec
        /\ HookValidationPassed => Len(ret.dispatched) = 1

-----------------------------------------------------------------------------
(* C24: a failed validation skips the hook *)

\* C24 (as the claim states it): when validation fails and a processor is
\* registered for the task's api_version, process_task and the processor's
\* methods are not invoked, no exception is raised, and the returned store
\* equals the input store. The lookup of the resolved spec comes before the
\* validation, and raises KeyError when 'ResolvedSpec:<task_id>' is there.
C24_FailedValidationSkipsTheHook ==
    (HookRanWithProcessor /\ ~HookValidationPassed) =>
        /\ ret.dispatched = <<>>
        /\ ret.calls = <<>>
        /\ ret.status = "return"
        /\ ret.variable_store = variable_store

-----------------------------------------------------------------------------
(* TaskState, as TaskPostProcessingStateUpdateHook uses it *)

\* Python values: an int, a bool, a datetime
PyInt(n) == [py |-> "int", value |-> n]
PyBool(b) == [py |-> "bool", value |-> b]
Datetime(t) == [py |-> "datetime", value |-> t]

\* len(d) of a dict
DictLen(d) == Cardinality(DOMAIN d.items)

\* created_timestamp > 0: an int is compared, and a datetime cannot be
\* compared with an int (TypeError)
GreaterThanZero(created_timestamp) ==
    IF created_timestamp.py = "int"
    THEN [status |-> "return", flag |-> created_timestamp.value > 0]
    ELSE [status |-> "TypeError", flag |-> FALSE]

\* TaskState.__init__, lines 137-148: is_created is computed from applied_spec
\* and created_timestamp, `or` evaluating its second operand only when the
\* first is false
TaskStateInit(manifest_spec, applied_spec, resolved_spec, manifest_metadata, report_label, created_timestamp, applied_resources_checksum, current_resource_checksum) ==
    LET is_created ==
            IF applied_spec.py = "NoneType"
            THEN [status |-> "return", flag |-> FALSE]
            ELSE IF DictLen(applied_spec) > 0
            THEN [status |-> "return", flag |-> TRUE]
            ELSE GreaterThanZero(created_timestamp)
    IN  [status |-> is_created.status,
         state |-> [raw_spec |-> manifest_spec,
                    raw_metadata |-> manifest_metadata,
                    report_label |-> report_label,
                    created_timestamp |-> created_timestamp,
                    applied_spec |-> applied_spec,
                    current_resolved_spec |-> resolved_spec,
                    is_created |-> is_created.flag,
                    applied_resources_checksum |-> applied_resources_checksum,
                    current_resource_checksum |-> current_resource_checksum]]

\* TaskState.to_dict(with_checksums=True, include_applied_spec=True), lines
\* 229-240 and 317: the label, IsCreated, CreatedTimestamp (which compares
\* created_timestamp with 0 when the state is created) and the applied spec
ToDict(self) ==
    LET positive == IF self.is_created
                    THEN GreaterThanZero(self.created_timestamp)
                    ELSE [status |-> "return", flag |-> FALSE]
    IN  [status |-> positive.status,
         data |-> [Label |-> self.report_label,
                   IsCreated |-> self.is_created,
                   CreatedTimestamp |-> IF positive.flag THEN self.created_timestamp
                                        ELSE NoneValue,
                   AppliedSpec |-> self.applied_spec]]

\* Task.__init__ with its fresh TaskState(manifest_spec=spec,
\* manifest_metadata=metadata, report_label=task_id)
TaskWithState(n, api_version, spec) ==
    [py |-> "Task", name |-> n, autoRollback |-> Absent,
     api_version |-> api_version, spec |-> spec,
     state |-> TaskStateInit(spec, Dict(<<>>), Dict(<<>>), Dict("name" :> Str(n)), n,
                             PyInt(0), NoneValue, NoneValue).state]

-----------------------------------------------------------------------------
(* TaskPostProcessingStateUpdateHook *)

\* expected_data of _validate_data: field, can_be_none, type, in dict order
ExpectedData ==
    << <<"resource_checksum", TRUE, "str">>,
       <<"resolved_spec_applied", TRUE, "dict">>,
       <<"state_changed", FALSE, "bool">>,
       <<"is_created", TRUE, "bool">>,
       <<"create_timestamp", TRUE, "datetime">>,
       <<"raw_spec", TRUE, "dict">>,
       <<"metadata", TRUE, "dict">> >>

\* _validate_data, the loop from field i on: a field that is missing fails, a
\* None where none is allowed fails, and a value that is not an instance of the
\* type fails (None is an instance of none of the types). `field_key not in
\* data` raises TypeError for data that is None.
RECURSIVE ValidateData(_, _)
ValidateData(data, i) ==
    IF i > Len(ExpectedData)
    THEN [status |-> "return", flag |-> TRUE]
    ELSE IF data.py = "NoneType"
    THEN [status |-> "TypeError", flag |-> FALSE]
    ELSE LET field_key == ExpectedData[i][1]
             can_be_none == ExpectedData[i][2]
             type == ExpectedData[i][3]
         IN  IF field_key \notin DOMAIN data.items
             THEN [status |-> "return", flag |-> FALSE]
             ELSE IF ~can_be_none /\ data.items[field_key].py = "NoneType"
             THEN [status |-> "return", flag |-> FALSE]
             ELSE IF data.items[field_key].py # type
             THEN [status |-> "return", flag |-> FALSE]
             ELSE ValidateData(data, i + 1)

\* what run leaves behind: its outcome, the task and the persistence object
StateUpdate(outcome, task_after, persistence_after) ==
    [outcome |-> outcome, task |-> task_after, persistence |-> persistence_after]

\* lines 1539-1558: the new TaskState, persistence.update_object_state and
\* persistence.commit()
ReplaceAndPersist(task_given, data, self_persistence, updated_variable_store) ==
    LET new_state == TaskStateInit(data.items["raw_spec"],
                                   data.items["resolved_spec_applied"],
                                   data.items["resolved_spec_applied"],
                                   data.items["metadata"],
                                   TaskId(task_given),
                                   data.items["create_timestamp"],
                                   data.items["resource_checksum"],
                                   data.items["resource_checksum"])
        replaced == [task_given EXCEPT !.state = new_state.state]
        as_dict == ToDict(new_state.state)
    IN  IF new_state.status # "return"
        THEN StateUpdate(HookOutcome(new_state.status, updated_variable_store, "", <<>>, <<>>),
                         task_given, self_persistence)
        ELSE IF as_dict.status # "return"
        THEN StateUpdate(HookOutcome(as_dict.status, updated_variable_store, "", <<>>, <<>>),
                         replaced, self_persistence)
        ELSE StateUpdate(HookOutcome("return", updated_variable_store, "", <<>>, <<>>),
                         replaced,
                         [commits |-> self_persistence.commits + 1,
                          state_cache |-> AddVariable(self_persistence.state_cache,
                                                      TaskId(task_given) \o ":TASK_STATE",
                                                      as_dict.data)])

\* the store without a variable (dict.pop)
WithoutVariable(store, variable_name) ==
    [name \in DOMAIN store \ {variable_name} |-> store[name]]

\* TaskPostProcessingStateUpdateHook.run
StateUpdateHookRun(task_given, self_persistence, store) ==
    LET vs_key == TaskId(task_given) \o ":TASK_STATE_UPDATES"
    IN  IF ~HasVariable(store, vs_key)
        THEN StateUpdate(HookOutcome("return", store, "", <<>>, <<>>),
                         task_given, self_persistence)
        ELSE LET data == GetVariable(store, vs_key)
                 updated_variable_store == WithoutVariable(store, vs_key)
                 valid == ValidateData(data, 1)
             IN  IF valid.status # "return"
                 THEN StateUpdate(HookOutcome(valid.status, updated_variable_store,
                                              "", <<>>, <<>>),
                                  task_given, self_persistence)
                 ELSE IF ~valid.flag
                 THEN StateUpdate(HookOutcome("return", updated_variable_store,
                                              "", <<>>, <<>>),
                                  task_given, self_persistence)
                 ELSE IF ~data.items["state_changed"].value
                 THEN StateUpdate(HookOutcome("return", updated_variable_store,
                                              "", <<>>, <<>>),
                                  task_given, self_persistence)
                 ELSE ReplaceAndPersist(task_given, data, self_persistence,
                                        updated_variable_store)

-----------------------------------------------------------------------------
(* The state machine of a TaskPostProcessingStateUpdateHook: a processor    *)
(* leaves TASK_STATE_UPDATES in the store, the hook is run, and the caller  *)
(* goes on with the store it returns                                        *)

\* TASK_STATE_UPDATES with every field of the type _validate_data expects
StateUpdates(resolved_spec_applied, state_changed, create_timestamp) ==
    Dict("resource_checksum" :> Str("abc")
         @@ "resolved_spec_applied" :> resolved_spec_applied
         @@ "state_changed" :> state_changed
         @@ "is_created" :> PyBool(TRUE)
         @@ "create_timestamp" :> create_timestamp
         @@ "raw_spec" :> Dict("s" :> Str("spec of t1"))
         @@ "metadata" :> Dict("name" :> Str("t1")))

\* the values a processor leaves: complete ones with an applied spec that is
\* empty or not, a state that did not change, fields of another type or None,
\* a missing field, and None
StateUpdatesMenu ==
    { StateUpdates(applied, changed, timestamp) :
          applied \in {Dict("s" :> Str("resolved")), Dict(<<>>)},
          changed \in {PyBool(TRUE), PyBool(FALSE), NoneValue},
          timestamp \in {Datetime(1), PyInt(1), NoneValue} }
      \cup { Dict("state_changed" :> PyBool(TRUE)), ParametersNone }

InitStateUpdateHook ==
    /\ tasks = <<>>
    /\ call = HookCall("__init__", None, ParametersNone)
    /\ ret = NoReturn
    /\ variable_store = VariableStore
    /\ now = 0
    /\ executor = WorkflowExecutor("GeneralErrorHook")
    /\ persistence = StatePersistence
    /\ parameter_validator = TaskProcessingActionParameterValidation(ConstraintsNone)
    /\ task_process_store = TaskProcessStore
    /\ hook_task = TaskWithState("t1", "v1", Dict("s" :> Str("spec of t1")))

\* variable_store.add_variable('<task_id>:TASK_STATE_UPDATES', data), by a
\* processor
CallAddTaskStateUpdates(task_id, data) ==
    /\ variable_store' = AddVariable(variable_store, task_id \o ":TASK_STATE_UPDATES", data)
    /\ call' = HookCall("add_variable", None, ParametersNone)
    /\ ret' = NoReturn
    /\ UNCHANGED <<tasks, now, executor, persistence, hookVars>>

\* TaskPostProcessingStateUpdateHook().run(task, parameters, parameter_validator,
\* persistence, variable_store, task_process_store); call keeps the task and
\* the persistence object as they were
CallStateUpdateHookRun ==
    LET done == StateUpdateHookRun(hook_task, persistence, variable_store)
    IN  /\ call' = [op |-> "state_update_run", task |-> hook_task,
                    parameters |-> ParametersNone, persistence |-> persistence]
        /\ ret' = done.outcome
        /\ hook_task' = done.task
        /\ persistence' = done.persistence
        /\ UNCHANGED <<tasks, variable_store, now, executor,
                       parameter_validator, task_process_store>>

\* the caller goes on with the store the hook returned
KeepHookStore ==
    /\ call.op = "state_update_run"
    /\ ret.status = "return"
    /\ variable_store' = ret.variable_store
    /\ call' = HookCall("keep", None, ParametersNone)
    /\ ret' = NoReturn
    /\ UNCHANGED <<tasks, now, executor, persistence, hookVars>>

NextStateUpdateHook ==
    \/ \E task_id \in {"t1", "t2"}, data \in StateUpdatesMenu :
            CallAddTaskStateUpdates(task_id, data)
    \/ CallStateUpdateHookRun
    \/ KeepHookStore

SpecStateUpdateHook == InitStateUpdateHook /\ [][NextStateUpdateHook]_vars

-----------------------------------------------------------------------------
(* C25: the task state is replaced and persisted *)

StateUpdateRan == call.op = "state_update_run"

\* '<task_id>:TASK_STATE_UPDATES' of the task the hook was run for
UpdatesKey == TaskId(call.task) \o ":TASK_STATE_UPDATES"

\* the variable is present, passes _validate_data and has state_changed=true
UpdatesQualify ==
    /\ HasVariable(variable_store, UpdatesKey)
    /\ ValidateData(GetVariable(variable_store, UpdatesKey), 1).flag
    /\ GetVariable(variable_store, UpdatesKey).items["state_changed"].value

\* C25 (as the claim states it): run replaces task.state and stores the new
\* state in persistence under '<task_id>:TASK_STATE' iff the variable
\* '<task_id>:TASK_STATE_UPDATES' is present, passes validation and has
\* state_changed=true, and then returns with the entry persisted; otherwise
\* task.state and the cache are unchanged; the variable is not in the returned
\* store. The code builds the TaskState from create_timestamp, which
\* _validate_data requires to be a datetime, and compares it with 0.
C25_StateReplacedAndPersistedIffQualified ==
    StateUpdateRan =>
        /\ UpdatesQualify =>
              /\ ret.status = "return"
              /\ hook_task.state # call.task.state
              /\ HasVariable(persistence.state_cache, TaskId(call.task) \o ":TASK_STATE")
        /\ ~UpdatesQualify =>
              /\ hook_task.state = call.task.state
              /\ persistence.state_cache = call.persistence.state_cache
        /\ ret.status = "return" => ~HasVariable(ret.variable_store, UpdatesKey)

-----------------------------------------------------------------------------
(* ResolveTaskSpecVariablesHook: strings are sequences of characters, and a *)
(* store is the dict in insertion order, a sequence of [id, value] entries  *)

\* '${VAR:'
VarPrefix == <<"$", "{", "V", "A", "R", ":">>

\* the characters of the model that the class [\w|\-|\s|:|.|;|_] of the
\* placeholder pattern accepts; '$', '{', '}' and '/' are not among them
PlaceholderChars ==
    {"u", "v", "K", "J", "c", "x", "d", "y", "e", "t", "1", "n", "o",
     "V", "A", "R", "H", "F", "C", "X", "P", "_", "|", "-", " ", ":", ".", ";"}

\* s.startswith(prefix)
StartsWith(s, prefix) == Len(s) >= Len(prefix) /\ SubSeq(s, 1, Len(prefix)) = prefix

\* sub in s
IsSubstring(sub, s) ==
    \E i \in 0..(Len(s) - Len(sub)) : SubSeq(s, i + 1, i + Len(sub)) = sub

\* s.split(sep) for a separator of one character
RECURSIVE Split(_, _)
Split(s, sep) ==
    IF \A i \in 1..Len(s) : s[i] # sep
    THEN <<s>>
    ELSE LET at == CHOOSE i \in 1..Len(s) : s[i] = sep /\ \A j \in 1..(i - 1) : s[j] # sep
         IN  <<SubSeq(s, 1, at - 1)>> \o Split(SubSeq(s, at + 1, Len(s)), sep)

\* sep.join(parts)
RECURSIVE Join(_, _)
Join(parts, sep) ==
    IF parts = <<>>
    THEN <<>>
    ELSE IF Len(parts) = 1
    THEN parts[1]
    ELSE parts[1] \o <<sep>> \o Join(Tail(parts), sep)

\* s.replace(old, new): the occurrences of old, found from left to right
\* without overlap, are replaced
RECURSIVE Replace(_, _, _)
Replace(s, old, new) ==
    IF s = <<>>
    THEN <<>>
    ELSE IF StartsWith(s, old)
    THEN new \o Replace(SubSeq(s, Len(old) + 1, Len(s)), old, new)
    ELSE <<Head(s)>> \o Replace(Tail(s), old, new)

\* the length of the placeholder that starts s, 0 when none does: '${VAR:',
\* one or more characters of the class, and '}'
PlaceholderLength(s) ==
    IF ~StartsWith(s, VarPrefix)
    THEN 0
    ELSE LET rest == SubSeq(s, Len(VarPrefix) + 1, Len(s))
             stops == {i \in 1..Len(rest) : rest[i] \notin PlaceholderChars}
         IN  IF stops = {}
             THEN 0
             ELSE LET stop == CHOOSE i \in stops : \A j \in stops : i <= j
                  IN  IF stop > 1 /\ rest[stop] = "}" THEN Len(VarPrefix) + stop ELSE 0

\* re.findall('(\$\{VAR:[\w|\-|\s|:|.|;|_]+\})', s): the placeholders of s,
\* from left to right
RECURSIVE FindAll(_)
FindAll(s) ==
    IF s = <<>>
    THEN <<>>
    ELSE IF PlaceholderLength(s) > 0
    THEN <<SubSeq(s, 1, PlaceholderLength(s))>>
            \o FindAll(SubSeq(s, PlaceholderLength(s) + 1, Len(s)))
    ELSE FindAll(Tail(s))

\* _lookup_value, lines 1345-1371: the four keys looked for, in their order
PotentialKeys(target_task_id, command, context, target_index) ==
    << target_task_id \o <<":">> \o command \o <<":">> \o context \o <<":">> \o target_index,
       target_task_id \o <<":">> \o command \o <<":", ":">> \o target_index,
       target_task_id \o <<":", ":">> \o context \o <<":">> \o target_index,
       target_task_id \o <<":">> \o target_index >>

\* lines 1373-1383: for each key looked for, for each variable name: result is
\* assigned when the name contains the key, and neither loop is left early
RECURSIVE LookupLoop(_, _, _, _, _)
LookupLoop(potential_keys, i, store, k, result) ==
    IF i > Len(potential_keys)
    THEN result
    ELSE IF k > Len(store)
    THEN LookupLoop(potential_keys, i + 1, store, 1, result)
    ELSE IF IsSubstring(potential_keys[i], store[k].id)
    THEN LookupLoop(potential_keys, i, store, k + 1, store[k].value)
    ELSE LookupLoop(potential_keys, i, store, k + 1, result)

\* lines 1337-1371: the keys looked for on behalf of a placeholder; the task
\* id is the second part of the placeholder and the index the rest, without '}'
KeysLookedFor(raw_key, command, context) ==
    LET key_parts == Split(raw_key, ":")
        target_task_id == key_parts[2]
        IsNotBrace(ch) == ch # "}"
        target_index == SelectSeq(Join(SubSeq(key_parts, 3, Len(key_parts)), ":"),
                                  IsNotBrace)
    IN  PotentialKeys(target_task_id, command, context, target_index)

\* ResolveTaskSpecVariablesHook._lookup_value
LookupValue(raw_key, command, context, store) ==
    IF StartsWith(raw_key, VarPrefix)
    THEN [status |-> "return",
          value |-> LookupLoop(KeysLookedFor(raw_key, command, context),
                               1, store, 1, Str(<<>>))]
    ELSE [status |-> "Exception", value |-> NoneValue]

\* lines 1403-1412: for match in matches, the placeholder is looked up and
\* replaced in modified_data; str.replace raises TypeError for a value that is
\* not a str
RECURSIVE ReplaceMatches(_, _, _, _, _, _)
ReplaceMatches(modified_data, matches, i, store, command, context) ==
    IF i > Len(matches)
    THEN [status |-> "return", data |-> Str(modified_data)]
    ELSE LET final_value == LookupValue(matches[i], command, context, store)
         IN  IF final_value.status # "return"
             THEN [status |-> final_value.status, data |-> NoneValue]
             ELSE IF final_value.value.py # "str"
             THEN [status |-> "TypeError", data |-> NoneValue]
             ELSE ReplaceMatches(Replace(modified_data, matches[i], final_value.value.value),
                                 matches, i + 1, store, command, context)

\* a list
List(items) == [py |-> "list", items |-> items]

\* ResolveTaskSpecVariablesHook._analyse_data: a str is interpolated, the
\* values of a dict and the items of a list are analysed, anything else is
\* copied; an exception in a part is the exception of the whole
RECURSIVE AnalyseData(_, _, _, _)
AnalyseData(data, store, command, context) ==
    IF data.py = "NoneType"
    THEN [status |-> "return", data |-> data]
    ELSE IF data.py = "str"
    THEN ReplaceMatches(data.value, FindAll(data.value), 1, store, command, context)
    ELSE IF data.py = "dict"
    THEN LET parts == [key \in DOMAIN data.items |->
                          AnalyseData(data.items[key], store, command, context)]
         IN  IF \E key \in DOMAIN parts : parts[key].status # "return"
             THEN [status |-> "TypeError", data |-> NoneValue]
             ELSE [status |-> "return",
                   data |-> Dict([key \in DOMAIN parts |-> parts[key].data])]
    ELSE IF data.py = "list"
    THEN LET parts == [i \in 1..Len(data.items) |->
                          AnalyseData(data.items[i], store, command, context)]
         IN  IF \E i \in 1..Len(parts) : parts[i].status # "return"
             THEN [status |-> "TypeError", data |-> NoneValue]
             ELSE [status |-> "return",
                   data |-> List([i \in 1..Len(parts) |-> parts[i].data])]
    ELSE [status |-> "return", data |-> data]

\* mutant: the resolved spec is written into the store that was given
ResolverEffectsInPlace(outcome, task_after, store_after) ==
    [outcome |-> outcome, task |-> task_after, variable_store |-> outcome.variable_store]

\* what run returns or raises, and what it leaves of the task and of the store
\* it was given
ResolverEffects(outcome, task_after, store_after) ==
    [outcome |-> outcome, task |-> task_after, variable_store |-> store_after]

\* 'none'
NoneStr == <<"n", "o", "n", "e">>

\* 'ResolvedSpec:<task_id>'
ResolvedSpecKey(task_given) ==
    <<"R", "e", "s", "o", "l", "v", "e", "d", "S", "p", "e", "c", ":">> \o TaskId(task_given)

\* lines 1438-1450: parameters[key] when it is a str that is not empty, 'none'
\* otherwise
ParameterOrNoneStr(parameters, key) ==
    IF ParameterOrNone(parameters, key).py = "str"
    THEN ParameterOrNone(parameters, key).value
    ELSE NoneStr

\* ResolveTaskSpecVariablesHook.run: copies of the store's dict and of
\* task.spec are worked on
ResolverRun(task_given, parameters, store) ==
    LET command == ParameterOrNoneStr(parameters, "Command")
        context == ParameterOrNoneStr(parameters, "Context")
        analysed == AnalyseData(task_given.spec, store, command, context)
        key == ResolvedSpecKey(task_given)
    IN  IF analysed.status # "return"
        THEN ResolverEffects(HookOutcome(analysed.status, store, "", <<>>, <<>>),
                             task_given, store)
        ELSE ResolverEffects(
                 HookOutcome("return",
                             DictSet(store, key, [id |-> key, value |-> analysed.data]),
                             "", <<>>, <<>>),
                 task_given, store)

-----------------------------------------------------------------------------
(* The state machine of a ResolveTaskSpecVariablesHook: variables are set   *)
(* in the caller's store, placeholders are looked up, data is analysed, the *)
(* hook is run, and the caller goes on with the store it returns            *)

\* most variables set by the caller
MaxVariables == 2

\* '${VAR:<task id>:<index>}'
Placeholder(target_task_id, target_index) ==
    VarPrefix \o target_task_id \o <<":">> \o target_index \o <<"}">>

\* the variables set: K of task u bound to command c and context x, to c, to
\* x, to neither; K of task v, as a str and as an int; K of task wu
VariableMenu ==
    { [id |-> <<"u", ":", "c", ":", "x", ":", "K">>, value |-> Str(<<"F">>)],
      [id |-> <<"u", ":", "c", ":", ":", "K">>, value |-> Str(<<"C">>)],
      [id |-> <<"u", ":", ":", "x", ":", "K">>, value |-> Str(<<"X">>)],
      [id |-> <<"u", ":", "K">>, value |-> Str(<<"P">>)],
      [id |-> <<"v", ":", "K">>, value |-> Str(<<"H">>)],
      [id |-> <<"v", ":", "K">>, value |-> PyInt(5)],
      [id |-> <<"w", "u", ":", "K">>, value |-> Str(<<"W">>)] }

\* the strings analysed: a placeholder after text, one placeholder twice and
\* another one, and no placeholder
StringMenu ==
    { <<"e", " ">> \o Placeholder(<<"u">>, <<"K">>),
      Placeholder(<<"u">>, <<"K">>) \o <<"/">> \o Placeholder(<<"v">>, <<"K">>)
          \o <<"/">> \o Placeholder(<<"u">>, <<"K">>),
      <<"e", " ", "$", "{", "u", "}">> }

\* the specs of the tasks: a str under a key; a key that is itself a
\* placeholder, over a list with a str, an int, None and a dict; no placeholder
SpecMenu ==
    { Dict(<<"c">> :> Str(<<"e", " ">> \o Placeholder(<<"u">>, <<"K">>))),
      Dict(Placeholder(<<"u">>, <<"K">>) :>
               List(<<Str(Placeholder(<<"v">>, <<"K">>)), PyInt(5), NoneValue,
                      Dict(<<"n">> :> Str(Placeholder(<<"u">>, <<"K">>)))>>)),
      Dict(<<"c">> :> Str(<<"e", " ", "$", "{", "u", "}">>)
           @@ <<"n">> :> List(<<PyInt(5), NoneValue>>)) }

\* the commands and contexts of the calls
ScopeMenu == {<<<<"c">>, <<"x">>>>, <<<<"d">>, <<"y">>>>}

ResolverCall(op, subject, command, context) ==
    [op |-> op, subject |-> subject, command |-> command, context |-> context,
     task |-> hook_task, variable_store |-> variable_store]

InitResolver ==
    /\ tasks = <<>>
    /\ call = [op |-> "__init__", subject |-> NoneValue, command |-> <<>>, context |-> <<>>,
               task |-> None, variable_store |-> <<>>]
    /\ ret = NoReturn
    /\ variable_store = <<>>
    /\ now = 0
    /\ executor = WorkflowExecutor("GeneralErrorHook")
    /\ persistence = StatePersistence
    /\ parameter_validator = TaskProcessingActionParameterValidation(ConstraintsNone)
    /\ task_process_store = TaskProcessStore
    /\ \E spec \in SpecMenu : hook_task = TaskWithSpec(<<"t", "1">>, "v1", spec)

resolverFrame == <<tasks, now, executor, persistence, parameter_validator, task_process_store>>

\* variable_store.add_variable(variable_name, value)
CallSetVariable(variable) ==
    /\ Len(variable_store) < MaxVariables \/ HasKey(variable_store, variable.id)
    /\ variable_store' = DictSet(variable_store, variable.id, variable)
    /\ call' = ResolverCall("add_variable", variable.value, <<>>, <<>>)
    /\ ret' = NoReturn
    /\ UNCHANGED <<hook_task, resolverFrame>>

\* hook._lookup_value(raw_key='${VAR:<task id>:<index>}', command, context,
\* variable_store)
CallLookupValue(target_task_id, target_index, command, context) ==
    /\ call' = ResolverCall("_lookup_value",
                            Str(Placeholder(target_task_id, target_index)), command, context)
    /\ ret' = LookupValue(Placeholder(target_task_id, target_index), command, context,
                          variable_store)
    /\ UNCHANGED <<variable_store, hook_task, resolverFrame>>

\* hook._analyse_data(task, data, variable_store, command, context)
CallAnalyseData(data, command, context) ==
    /\ call' = ResolverCall("_analyse_data", data, command, context)
    /\ ret' = AnalyseData(data, variable_store, command, context)
    /\ UNCHANGED <<variable_store, hook_task, resolverFrame>>

\* hook.run(task, parameters, parameter_validator, persistence, variable_store,
\* task_process_store)
CallResolverRun(parameters) ==
    LET done == ResolverRun(hook_task, parameters, variable_store)
    IN  /\ call' = ResolverCall("run", parameters,
                                ParameterOrNoneStr(parameters, "Command"),
                                ParameterOrNoneStr(parameters, "Context"))
        /\ ret' = done.outcome
        /\ hook_task' = done.task
        /\ variable_store' = done.variable_store
        /\ UNCHANGED resolverFrame

\* the caller goes on with the store the hook returned
KeepResolvedStore ==
    /\ call.op = "run"
    /\ ret.status = "return"
    /\ variable_store' = ret.variable_store
    /\ call' = ResolverCall("keep", NoneValue, <<>>, <<>>)
    /\ ret' = NoReturn
    /\ UNCHANGED <<hook_task, resolverFrame>>

NextResolver ==
    \/ \E variable \in VariableMenu : CallSetVariable(variable)
    \/ \E target_task_id \in {<<"u">>, <<"v">>}, scope \in ScopeMenu :
            CallLookupValue(target_task_id, <<"K">>, scope[1], scope[2])
    \/ \E data \in StringMenu, scope \in ScopeMenu :
            CallAnalyseData(Str(data), scope[1], scope[2])
    \/ \E parameters \in {Dict(<<>>),
                          Dict("Command" :> Str(<<"c">>) @@ "Context" :> Str(<<"x">>)),
                          Dict("Command" :> Str(<<"d">>) @@ "Context" :> NoneValue)} :
            CallResolverRun(parameters)
    \/ KeepResolvedStore

SpecResolver == InitResolver /\ [][NextResolver]_vars

-----------------------------------------------------------------------------
(* Vocabulary of the properties of the resolver *)

\* the variables whose name contains the i-th key looked for
Matching(potential_keys, i, store) ==
    {k \in 1..Len(store) : IsSubstring(potential_keys[i], store[k].id)}

\* the keys looked for that some variable name contains
MatchedKeys(potential_keys, store) ==
    {i \in 1..Len(potential_keys) : Matching(potential_keys, i, store) # {}}

\* the values bound to a placeholder by the first key that matches a variable
\* name, the empty string when none does
BoundValues(raw_key, command, context, store) ==
    LET potential_keys == KeysLookedFor(raw_key, command, context)
        matched == MatchedKeys(potential_keys, store)
    IN  IF matched = {}
        THEN {Str(<<>>)}
        ELSE LET first == CHOOSE i \in matched : \A j \in matched : i <= j
             IN  {store[k].value : k \in Matching(potential_keys, first, store)}

\* the string form of a value
StringForm(value) == IF value.py = "str" THEN value.value ELSE <<"5">>

\* a string in which each placeholder, from match i on, is replaced by the
\* string form of the value bound to it
RECURSIVE Interpolated(_, _, _, _, _, _)
Interpolated(string, matches, i, store, command, context) ==
    IF i > Len(matches)
    THEN string
    ELSE LET bound == CHOOSE value \in BoundValues(matches[i], command, context, store) : TRUE
         IN  Interpolated(Replace(string, matches[i], StringForm(bound)),
                          matches, i + 1, store, command, context)

\* data holds a placeholder in a str that is analysed (keys are not)
RECURSIVE HasPlaceholder(_)
HasPlaceholder(data) ==
    IF data.py = "str" THEN FindAll(data.value) # <<>>
    ELSE IF data.py = "dict" THEN \E key \in DOMAIN data.items : HasPlaceholder(data.items[key])
    ELSE IF data.py = "list" THEN \E i \in 1..Len(data.items) : HasPlaceholder(data.items[i])
    ELSE FALSE

\* two values have the same keys and lengths, at every depth
RECURSIVE SameShape(_, _)
SameShape(a, b) ==
    IF a.py # b.py THEN FALSE
    ELSE IF a.py = "dict"
    THEN /\ DOMAIN a.items = DOMAIN b.items
         /\ \A key \in DOMAIN a.items : SameShape(a.items[key], b.items[key])
    ELSE IF a.py = "list"
    THEN /\ Len(a.items) = Len(b.items)
         /\ \A i \in 1..Len(a.items) : SameShape(a.items[i], b.items[i])
    ELSE TRUE

-----------------------------------------------------------------------------
(* C28: the order in which the keys of a placeholder are tried *)

\* C28 (as the claim states it): _lookup_value returns the value of the first
\* of the keys T:command:context:K, T:command::K, T::context:K, T:K that
\* matches a variable name, so that a fully scoped binding wins over a less
\* specific one. The loops of lines 1373-1383 are never left early, so the
\* last match is the one returned.
C28_FirstMatchingKeyWins ==
    call.op = "_lookup_value" =>
        /\ ret.status = "return"
        /\ \E value \in BoundValues(call.subject.value, call.command, call.context,
                                    variable_store) :
              value.py = ret.value.py /\ value = ret.value

-----------------------------------------------------------------------------
(* C29: interpolation of a string *)

\* C29 (as the claim states it): analysing a str replaces every occurrence of
\* each placeholder by the value bound to it for the command and context, the
\* empty string when no key matches, and does not raise. str.replace raises
\* TypeError for a value that is not a str, and the value used is the one of
\* the last matching key (C28).
C29_EveryOccurrenceReplaced ==
    call.op = "_analyse_data" =>
        /\ ret.status = "return"
        /\ ret.data = Str(Interpolated(call.subject.value, FindAll(call.subject.value), 1,
                                       variable_store, call.command, call.context))

-----------------------------------------------------------------------------
(* C39: the variables a placeholder is resolved from *)

\* the variables of the store named by one of the keys of the placeholder
VariablesOfThePlaceholder(raw_key, command, context, store) ==
    LET potential_keys == KeysLookedFor(raw_key, command, context)
        IsNamed(variable) == \E i \in 1..Len(potential_keys) : variable.id = potential_keys[i]
    IN  SelectSeq(store, IsNamed)

\* C39 (as the claim states it): ${VAR:T:K} is resolved only from variables
\* named T:command:context:K, T:command::K, T::context:K or T:K: the value
\* returned is the one returned for the store without every other variable.
\* Line 1381 tests whether the variable name contains the key, so a variable
\* 'wu:K' is found for ${VAR:u:K}.
C39_OtherVariablesHaveNoInfluence ==
    call.op = "_lookup_value" =>
        ret = LookupValue(call.subject.value, call.command, call.context,
                          VariablesOfThePlaceholder(call.subject.value, call.command,
                                                    call.context, variable_store))

-----------------------------------------------------------------------------
(* C30: run changes neither the task nor the store it is given *)

ResolverRan == call.op = "run"

-----------------------------------------------------------------------------
(* TaskState: is_created, update_applied_spec and the drift report of       *)
(* to_dict. A dict is a sequence of [id, value] entries in insertion order, *)
(* the order in which json.dumps writes it.                                 *)

\* a dict of one entry and of two entries
Dict1(key, value) == Dict(<<[id |-> key, value |-> value]>>)
Dict2(key1, value1, key2, value2) ==
    Dict(<<[id |-> key1, value |-> value1], [id |-> key2, value |-> value2]>>)

\* a == b of two Python values: dicts are equal when they hold the same keys
\* with equal values, in whatever order
RECURSIVE PyEquals(_, _)
PyEquals(a, b) ==
    IF a.py # b.py THEN FALSE
    ELSE IF a.py = "dict"
    THEN /\ {a.items[i].id : i \in 1..Len(a.items)} = {b.items[i].id : i \in 1..Len(b.items)}
         /\ \A i \in 1..Len(a.items) :
               PyEquals(a.items[i].value, b.items[KeyIndex(b.items, a.items[i].id)].value)
    ELSE a = b

\* json.dumps(value): None is null, a str is quoted, and the items of a dict
\* are written in insertion order, from item i on
RECURSIVE JsonDumps(_)
RECURSIVE JsonDumpsItems(_, _)
JsonDumpsItems(items, i) ==
    IF i > Len(items) THEN ""
    ELSE (IF i > 1 THEN ", " ELSE "")
             \o "\"" \o items[i].id \o "\": " \o JsonDumps(items[i].value)
             \o JsonDumpsItems(items, i + 1)
JsonDumps(value) ==
    IF value.py = "NoneType" THEN "null"
    ELSE IF value.py = "str" THEN "\"" \o value.value \o "\""
    ELSE IF value.py = "int" THEN ToString(value.value)
    ELSE IF value.py = "bool" THEN (IF value.value THEN "true" ELSE "false")
    ELSE "{" \o JsonDumpsItems(value.items, 1) \o "}"

\* hashlib.sha256(text).hexdigest(): a digest that differs for different texts
Sha256Hexdigest(text) == "sha256(" \o text \o ")"

\* TaskState.calculate_manifest_state_checksum(spec=spec), metadata left to
\* its default
CalculateManifestStateChecksum(spec) ==
    Str(Sha256Hexdigest(JsonDumps(Dict2("spec", spec, "metadata", Dict(<<>>)))))

\* TaskState.update_applied_spec: the three attributes are assigned before
\* is_created is computed, so they stay assigned when the comparison raises
UpdateAppliedSpec(self, new_applied_spec, new_applied_resource_checksum, updated_timestamp) ==
    LET is_created ==
            IF new_applied_spec.py = "NoneType"
            THEN [status |-> "return", flag |-> FALSE]
            ELSE IF DictLen(new_applied_spec) > 0
            THEN [status |-> "return", flag |-> TRUE]
            ELSE GreaterThanZero(updated_timestamp)
    IN  [status |-> is_created.status,
         state |-> [self EXCEPT !.applied_spec = new_applied_spec,
                                !.applied_resources_checksum = new_applied_resource_checksum,
                                !.created_timestamp = updated_timestamp,
                                !.is_created = is_created.flag]]

\* lines 248-254 of to_dict: an argument that is a dict, and one that is a
\* str, replaces the attribute
WithArguments(self, current_resolved_spec, current_resource_checksum) ==
    [self EXCEPT !.current_resolved_spec =
                     IF current_resolved_spec.py = "dict" THEN current_resolved_spec ELSE @,
                 !.current_resource_checksum =
                     IF current_resource_checksum.py = "str"
                     THEN current_resource_checksum ELSE @]

\* lines 236-243: CreatedTimestamp, '-' for a reader when the state is not
\* created or the timestamp is 0; datetime.fromtimestamp(t).strftime(...) is
\* kept as the text of the timestamp it formats
CreatedTimestampReported(self, human_readable) ==
    LET positive == IF self.is_created
                    THEN GreaterThanZero(self.created_timestamp)
                    ELSE [status |-> "return", flag |-> FALSE]
    IN  [status |-> positive.status,
         value |-> IF positive.flag
                   THEN IF human_readable
                        THEN Str("strftime(" \o ToString(self.created_timestamp.value) \o ")")
                        ELSE self.created_timestamp
                   ELSE IF /\ human_readable
                           /\ ~self.is_created \/ self.created_timestamp = PyInt(0)
                        THEN Str("-")
                        ELSE NoneValue]

\* lines 244-268: SpecDrifted
SpecDriftedReported(self, human_readable) ==
    IF self.is_created
    THEN IF /\ self.current_resolved_spec.py # "NoneType"
            /\ self.applied_spec.py # "NoneType"
            /\ CalculateManifestStateChecksum(self.applied_spec)
                   # CalculateManifestStateChecksum(self.current_resolved_spec)
         THEN IF human_readable THEN Str("Yes") ELSE PyBool(TRUE)
         ELSE IF human_readable THEN Str("No") ELSE NoneValue
    ELSE IF human_readable THEN Str("N/A") ELSE NoneValue

\* mutant: no drift is reported when the current resource checksum is missing
ResourceDriftedUnlessMissing(self, human_readable) ==
    IF self.is_created
    THEN IF self.applied_resources_checksum.py # "NoneType"
         THEN IF \/ self.current_resource_checksum.py = "NoneType"
                 \/ self.current_resource_checksum = self.applied_resources_checksum
              THEN IF human_readable THEN Str("No") ELSE PyBool(FALSE)
              ELSE IF human_readable THEN Str("Yes") ELSE PyBool(TRUE)
         ELSE IF human_readable THEN Str("Unknown") ELSE NoneValue
    ELSE IF human_readable THEN Str("N/A") ELSE NoneValue

\* lines 270-287: ResourceDrifted
ResourceDriftedReported(self, human_readable) ==
    IF self.is_created
    THEN IF self.applied_resources_checksum.py # "NoneType"
         THEN IF /\ self.current_resource_checksum.py # "NoneType"
                 /\ self.current_resource_checksum = self.applied_resources_checksum
              THEN IF human_readable THEN Str("No") ELSE PyBool(FALSE)
              ELSE IF human_readable THEN Str("Yes") ELSE PyBool(TRUE)
         ELSE IF human_readable THEN Str("Unknown") ELSE NoneValue
    ELSE IF human_readable THEN Str("N/A") ELSE NoneValue

\* lines 289-314: the four checksums; CurrentResolvedSpecChecksum is computed
\* from the argument current_resolved_spec, not from the attribute
ChecksumsReported(self, human_readable, current_resolved_spec) ==
    LET unavailable == IF human_readable THEN Str("unavailable") ELSE NoneValue
    IN  ("AppliedSpecChecksum" :>
            IF self.applied_spec.py = "dict" /\ self.is_created
            THEN CalculateManifestStateChecksum(self.applied_spec) ELSE unavailable)
        @@ ("CurrentResolvedSpecChecksum" :>
            IF self.current_resolved_spec.py = "dict"
            THEN CalculateManifestStateChecksum(current_resolved_spec) ELSE unavailable)
        @@ ("AppliedResourcesChecksum" :>
            IF self.applied_resources_checksum.py = "str" /\ self.is_created
            THEN self.applied_resources_checksum ELSE unavailable)
        @@ ("CurrentResourceChecksum" :>
            IF self.current_resource_checksum.py = "str" /\ self.is_created
            THEN self.current_resource_checksum ELSE unavailable)

\* TaskState.to_dict: the dict it returns, and the state it leaves (the
\* arguments replace the attributes after CreatedTimestamp was computed)
TaskStateToDict(self, human_readable, current_resolved_spec, current_resource_checksum, with_checksums, include_applied_spec) ==
    LET created_timestamp == CreatedTimestampReported(self, human_readable)
        updated == WithArguments(self, current_resolved_spec, current_resource_checksum)
    IN  IF created_timestamp.status # "return"
        THEN [status |-> created_timestamp.status, data |-> <<>>, state |-> self]
        ELSE [status |-> "return",
              data |-> ("Label" :> Str(updated.report_label))
                       @@ ("IsCreated" :> IF human_readable
                                          THEN Str(IF updated.is_created THEN "Yes" ELSE "No")
                                          ELSE PyBool(updated.is_created))
                       @@ ("CreatedTimestamp" :> created_timestamp.value)
                       @@ ("SpecDrifted" :> SpecDriftedReported(updated, human_readable))
                       @@ ("ResourceDrifted" :> ResourceDriftedReported(updated, human_readable))
                       @@ (IF with_checksums
                           THEN ChecksumsReported(updated, human_readable, current_resolved_spec)
                           ELSE <<>>)
                       @@ (IF include_applied_spec
                           THEN "AppliedSpec" :> updated.applied_spec
                           ELSE <<>>),
              state |-> updated]

-----------------------------------------------------------------------------
(* The state machine of a TaskState: it is constructed, its applied spec is *)
(* updated and it is converted to a dict                                    *)

\* the specs: None, empty, and two dicts that are equal but were filled in a
\* different order
SpecValueMenu ==
    { NoneValue, Dict(<<>>),
      Dict2("f", PyInt(1), "g", PyInt(2)),
      Dict2("g", PyInt(2), "f", PyInt(1)) }

\* the timestamps: never created, and a time after the epoch
TimestampMenu == {PyInt(0), PyInt(2)}

\* the resource checksums
ChecksumMenu == {NoneValue, Str("a"), Str("b")}

\* what to_dict is called with for current_resolved_spec: nothing, a value
\* that is not a dict, and the dicts
ResolvedSpecArgumentMenu == (SpecValueMenu \ {Dict(<<>>)}) \cup {Str("x")}

\* what to_dict is called with for with_checksums and include_applied_spec:
\* the defaults, the drift report, and __repr__
ReportMenu == {<<FALSE, FALSE>>, <<TRUE, FALSE>>, <<TRUE, TRUE>>}

\* a call on the state: the state as it was, and the arguments
TaskStateCall(op, before, arguments) ==
    [op |-> op, state |-> before, arguments |-> arguments]

\* task.state = TaskState(manifest_spec=..., applied_spec=..., resolved_spec=...,
\* manifest_metadata=..., report_label=..., created_timestamp=...,
\* applied_resources_checksum=..., current_resource_checksum=...)
InitTaskState ==
    /\ tasks = <<>>
    /\ ret = NoReturn
    /\ variable_store = VariableStore
    /\ now = 0
    /\ executor = WorkflowExecutor("GeneralErrorHook")
    /\ persistence = StatePersistence
    /\ parameter_validator = TaskProcessingActionParameterValidation(ConstraintsNone)
    /\ task_process_store = TaskProcessStore
    /\ \E applied_spec \in SpecValueMenu, resolved_spec \in SpecValueMenu,
          created_timestamp \in TimestampMenu,
          applied_resources_checksum \in ChecksumMenu,
          current_resource_checksum \in ChecksumMenu :
          LET constructed == TaskStateInit(Dict(<<>>), applied_spec, resolved_spec,
                                           Dict(<<>>), "t1", created_timestamp,
                                           applied_resources_checksum,
                                           current_resource_checksum)
          IN  /\ constructed.status = "return"
              /\ hook_task = [TaskWithState("t1", "v1", Dict(<<>>))
                                  EXCEPT !.state = constructed.state]
              /\ call = TaskStateCall("__init__", constructed.state, <<>>)

taskStateFrame ==
    <<tasks, variable_store, now, executor, persistence, parameter_validator,
      task_process_store>>

\* task.state.update_applied_spec(new_applied_spec, new_applied_resource_checksum,
\* updated_timestamp)
CallUpdateAppliedSpec(new_applied_spec, new_applied_resource_checksum, updated_timestamp) ==
    LET done == UpdateAppliedSpec(hook_task.state, new_applied_spec,
                                  new_applied_resource_checksum, updated_timestamp)
    IN  /\ call' = TaskStateCall("update_applied_spec", hook_task.state,
                                 <<new_applied_spec, new_applied_resource_checksum,
                                   updated_timestamp>>)
        /\ ret' = [status |-> done.status, data |-> <<>>]
        /\ hook_task' = [hook_task EXCEPT !.state = done.state]
        /\ UNCHANGED taskStateFrame

\* task.state.to_dict(human_readable, current_resolved_spec,
\* current_resource_checksum, with_checksums, include_applied_spec)
CallToDict(human_readable, current_resolved_spec, current_resource_checksum, report) ==
    LET done == TaskStateToDict(hook_task.state, human_readable, current_resolved_spec,
                                current_resource_checksum, report[1], report[2])
    IN  /\ call' = TaskStateCall("to_dict", hook_task.state,
                                 <<human_readable, current_resolved_spec,
                                   current_resource_checksum, report[1], report[2]>>)
        /\ ret' = [status |-> done.status, data |-> done.data]
        /\ hook_task' = [hook_task EXCEPT !.state = done.state]
        /\ UNCHANGED taskStateFrame

NextTaskState ==
    \/ \E new_applied_spec \in SpecValueMenu, updated_timestamp \in TimestampMenu,
          new_applied_resource_checksum \in {NoneValue, Str("b")} :
            CallUpdateAppliedSpec(new_applied_spec, new_applied_resource_checksum,
                                  updated_timestamp)
    \/ \E human_readable \in BOOLEAN,
          current_resolved_spec \in ResolvedSpecArgumentMenu,
          current_resource_checksum \in {NoneValue, Str("a")},
          report \in ReportMenu :
            CallToDict(human_readable, current_resolved_spec, current_resource_checksum,
                       report)

SpecTaskState == InitTaskState /\ [][NextTaskState]_vars

-----------------------------------------------------------------------------
(* Vocabulary of the properties of a TaskState *)

\* the TaskState as the last call left it
State == hook_task.state

\* to_dict was called without human_readable and returned
Reported == call.op = "to_dict" /\ ~call.arguments[1] /\ ret.status = "return"

\* a spec that is a dict with at least one key
NonEmpty(spec) == spec.py = "dict" /\ DictLen(spec) > 0

-----------------------------------------------------------------------------
(* C31: is_created *)

\* C31 (as the claim states it): after the construction of a TaskState and
\* after every update_applied_spec, is_created is true iff the applied spec is
\* non-empty or the created timestamp is greater than 0, also when the applied
\* spec is missing. With an applied spec that is None the timestamp is not
\* looked at.
C31_IsCreatedRule ==
    call.op \in {"__init__", "update_applied_spec"} =>
        ( State.is_created
            <=> (NonEmpty(State.applied_spec) \/ State.created_timestamp.value > 0) )

-----------------------------------------------------------------------------
(* C32: SpecDrifted *)

\* C32 (as the claim states it): SpecDrifted is None iff the state is not
\* created; for a created state it is the boolean that tells whether the
\* checksum of the applied spec differs from the checksum of the current
\* resolved spec. No line assigns False to SpecDrifted.
C32_SpecDriftedIsABooleanWhenCreated ==
    Reported =>
        /\ ret.data["SpecDrifted"] = NoneValue <=> ~State.is_created
        /\ State.is_created =>
              ret.data["SpecDrifted"]
                  = PyBool(CalculateManifestStateChecksum(State.applied_spec)
                               # CalculateManifestStateChecksum(State.current_resolved_spec))

-----------------------------------------------------------------------------
(* C33: ResourceDrifted *)

\* C33: ResourceDrifted is None when the state is not created; for a created
\* state with applied_resources_checksum set it is true when the current
\* resource checksum (the argument when it is a str, the attribute otherwise)
\* is None or differs from it, and false when the two are equal
C33_ResourceDriftedRule ==
    Reported =>
        /\ ~State.is_created => ret.data["ResourceDrifted"] = NoneValue
        /\ State.is_created /\ State.applied_resources_checksum.py = "str" =>
              ret.data["ResourceDrifted"]
                  = PyBool(\/ State.current_resource_checksum = NoneValue
                           \/ State.current_resource_checksum
                                  # State.applied_resources_checksum)
        /\ State.current_resource_checksum
              = IF call.arguments[3].py = "str" THEN call.arguments[3]
                ELSE call.state.current_resource_checksum

\* no drift is reported for a created state whose current resource checksum
\* differed until the call gave the checksum that was applied
C33_Witness ==
    /\ Reported
    /\ State.is_created
    /\ State.applied_resources_checksum = Str("a")
    /\ call.state.current_resource_checksum = Str("b")
    /\ call.arguments[3] = Str("a")
    /\ ret.data["ResourceDrifted"] = PyBool(FALSE)

-----------------------------------------------------------------------------
(* C34: the report after update_applied_spec *)

\* to_dict(with_checksums=True) of the state as it is now
DriftReport == TaskStateToDict(State, FALSE, NoneValue, NoneValue, TRUE, FALSE)

\* C34 (as the claim states it): after update_applied_spec(s, c, t) with
\* t > 0 on a created state, to_dict(with_checksums=True) reports
\* CreatedTimestamp = t, AppliedResourcesChecksum = c and
\* CurrentResourceChecksum = c, no spec drift when s equals the current
\* resolved spec, and the state is still created. update_applied_spec does not
\* assign current_resource_checksum.
C34_ReportFollowsTheUpdate ==
    ( /\ call.op = "update_applied_spec"
      /\ call.state.is_created
      /\ call.arguments[3].value > 0 ) =>
        /\ State.is_created
        /\ DriftReport.status = "return"
        /\ DriftReport.data["CreatedTimestamp"] = call.arguments[3]
        /\ DriftReport.data["AppliedResourcesChecksum"] = call.arguments[2]
        /\ DriftReport.data["CurrentResourceChecksum"] = call.arguments[2]
        /\ PyEquals(call.arguments[1], State.current_resolved_spec) =>
              DriftReport.data["SpecDrifted"] # PyBool(TRUE)

-----------------------------------------------------------------------------
(* C38: the drift report agrees with the checksums it shows *)

\* C38 (as the claim states it): in a to_dict(with_checksums=True) result of
\* a created state SpecDrifted is true iff the reported AppliedSpecChecksum
\* differs from the reported CurrentResolvedSpecChecksum, whether the current
\* resolved spec was passed or not. Line 306 computes the reported checksum
\* from the argument, which is None when it is omitted.
C38_DriftReportIsSelfConsistent ==
    ( Reported /\ call.arguments[4] /\ State.is_created ) =>
        ( ret.data["SpecDrifted"] = PyBool(TRUE)
            <=> ret.data["AppliedSpecChecksum"] # ret.data["CurrentResolvedSpecChecksum"] )

-----------------------------------------------------------------------------
(* StatePersistence with the mappings it shares with its caller            *)
(*                                                                          *)
(* A mapping is an object of the interpreter's memory and is handed over by *)
(* reference: memory is the sequence of the dicts that exist, a reference   *)
(* is an index into it, and a value of a dict is an int or a reference to   *)
(* another dict. The mappings here share no part and contain no cycle.      *)

Ref(to) == [py |-> "ref", to |-> to]

\* the value a reference stands for, with the nested mappings in place of
\* their references: what == compares
RECURSIVE Content(_, _)
Content(memory, value) ==
    IF value.py # "ref" THEN value
    ELSE Dict([i \in DOMAIN memory[value.to].items |->
                  [id |-> memory[value.to].items[i].id,
                   value |-> Content(memory, memory[value.to].items[i].value)]])

\* copy.copy(x): a new dict with the values of x, nested mappings shared
ShallowCopy(memory, value) ==
    IF value.py # "ref" THEN [memory |-> memory, value |-> value]
    ELSE [memory |-> Append(memory, memory[value.to]), value |-> Ref(Len(memory) + 1)]

\* copy.deepcopy(x): a new dict whose values are deep copies of the values of x
RECURSIVE Deepcopy(_, _)
RECURSIVE DeepcopyItems(_, _, _)
DeepcopyItems(memory, items, done) ==
    IF items = <<>> THEN [memory |-> memory, items |-> done]
    ELSE LET copied == Deepcopy(memory, Head(items).value)
         IN  DeepcopyItems(copied.memory, Tail(items),
                           Append(done, [id |-> Head(items).id, value |-> copied.value]))

Deepcopy(memory, value) ==
    IF value.py # "ref" THEN [memory |-> memory, value |-> value]
    ELSE LET copied == DeepcopyItems(memory, memory[value.to].items, <<>>)
         IN  [memory |-> Append(copied.memory, Dict(copied.items)),
              value |-> Ref(Len(copied.memory) + 1)]

\* StatePersistence(): the cache is empty, and load, which __init__ calls,
\* leaves it empty
StatePersistenceWithMemory == [commits |-> 0, state_cache |-> <<>>, memory |-> <<>>]

\* an Exception instance
PyException(message) == [py |-> "Exception", value |-> message]

\* StatePersistence.load: nothing is retrieved; on_failure is returned, or
\* raised when it is an Exception
StatePersistenceLoad(self, on_failure) ==
    [status |-> IF on_failure.py = "Exception" THEN "raise" ELSE "return",
     data |-> on_failure,
     self |-> self]

\* return copy.deepcopy(self.state_cache[object_identifier]); loads is the
\* number of calls of self.load() that get has made
CopyOfCached(self, object_identifier, loads) ==
    LET copied == Deepcopy(self.memory, GetVariable(self.state_cache, object_identifier))
    IN  [status |-> "return", data |-> copied.value, loads |-> loads,
         self |-> [self EXCEPT !.memory = copied.memory]]

\* StatePersistence.get
StatePersistenceGet(self, object_identifier, refresh_cache_if_identifier_not_found) ==
    LET loaded == StatePersistenceLoad(self, PyBool(FALSE)).self
    IN  IF HasVariable(self.state_cache, object_identifier)
        THEN CopyOfCached(self, object_identifier, 0)
        ELSE IF /\ refresh_cache_if_identifier_not_found = PyBool(TRUE)
                /\ HasVariable(loaded.state_cache, object_identifier)
        THEN CopyOfCached(loaded, object_identifier, 1)
        ELSE LET refreshed == refresh_cache_if_identifier_not_found = PyBool(TRUE)
                 after == IF refreshed THEN loaded ELSE self
             IN  [status |-> "return", data |-> Ref(Len(after.memory) + 1),
                  loads |-> IF refreshed THEN 1 ELSE 0,
                  self |-> [after EXCEPT !.memory = Append(@, Dict(<<>>))]]

\* StatePersistence.update_object_state
UpdateObjectState(self, object_identifier, data) ==
    LET copied == Deepcopy(self.memory, data)
    IN  [status |-> "return", data |-> NoneValue,
         self |-> [self EXCEPT !.memory = copied.memory,
                               !.state_cache = AddVariable(@, object_identifier,
                                                           copied.value)]]

\* StatePersistence.commit: nothing is saved
StatePersistenceCommit(self) ==
    [status |-> "return", data |-> NoneValue, self |-> [self EXCEPT !.commits = @ + 1]]

-----------------------------------------------------------------------------
(* The state machine of a StatePersistence and its caller *)

\* the dicts in memory, the copies included
MaxObjects == 6

\* the identifiers the caller uses
IdentifierMenu == {"a", "b"}

\* what the caller passes for refresh_cache_if_identifier_not_found: True,
\* False, and a value that is true without being True
RefreshMenu == {PyBool(TRUE), PyBool(FALSE), PyInt(1)}

\* the mappings the caller builds: {}, {'v': 1} and {'n': {'v': 1}}; each is
\* the memory with the mapping added, and the reference to it
MappingMenu(memory) ==
    { [memory |-> Append(memory, Dict(<<>>)), value |-> Ref(Len(memory) + 1)],
      [memory |-> Append(memory, Dict1("v", PyInt(1))), value |-> Ref(Len(memory) + 1)],
      [memory |-> Append(Append(memory, Dict1("v", PyInt(1))),
                         Dict1("n", Ref(Len(memory) + 1))),
       value |-> Ref(Len(memory) + 2)] }

\* the caller: the mappings it holds (those it built and those get returned),
\* and for every identifier the mapping it passed to the latest
\* update_object_state and the value that mapping had at that call
Caller(held, passed, latest) == [held |-> held, passed |-> passed, latest |-> latest]

\* a call on the persistence: the persistence as it was, the arguments, and
\* the caller after the call
PersistenceCall(op, before, arguments, caller) ==
    [op |-> op, persistence |-> before, arguments |-> arguments, caller |-> caller]

\* p = StatePersistence()
InitPersistence ==
    /\ tasks = <<>>
    /\ ret = NoReturn
    /\ variable_store = VariableStore
    /\ now = 0
    /\ executor = WorkflowExecutor("GeneralErrorHook")
    /\ parameter_validator = TaskProcessingActionParameterValidation(ConstraintsNone)
    /\ task_process_store = TaskProcessStore
    /\ hook_task = TaskWithState("t1", "v1", Dict(<<>>))
    /\ persistence = StatePersistenceWithMemory
    /\ call = PersistenceCall("__init__", StatePersistenceWithMemory, <<>>,
                              Caller({}, <<>>, <<>>))

persistenceFrame ==
    <<tasks, variable_store, now, executor, parameter_validator, task_process_store,
      hook_task>>

\* p.update_object_state(object_identifier, data) with a mapping the caller
\* has just built
CallUpdateObjectState(object_identifier, built) ==
    LET before == [persistence EXCEPT !.memory = built.memory]
        done == UpdateObjectState(before, object_identifier, built.value)
    IN  /\ Len(done.self.memory) <= MaxObjects
        /\ call' = PersistenceCall("update_object_state", before,
                       <<object_identifier, built.value>>,
                       Caller(call.caller.held \cup {built.value.to},
                              AddVariable(call.caller.passed, object_identifier,
                                          built.value),
                              AddVariable(call.caller.latest, object_identifier,
                                          Content(built.memory, built.value))))
        /\ ret' = [status |-> done.status, data |-> done.data]
        /\ persistence' = done.self
        /\ UNCHANGED persistenceFrame

\* p.get(object_identifier, refresh_cache_if_identifier_not_found)
CallGet(object_identifier, refresh_cache_if_identifier_not_found) ==
    LET done == StatePersistenceGet(persistence, object_identifier,
                                    refresh_cache_if_identifier_not_found)
    IN  /\ Len(done.self.memory) <= MaxObjects
        /\ call' = PersistenceCall("get", persistence,
                       <<object_identifier, refresh_cache_if_identifier_not_found>>,
                       [call.caller EXCEPT !.held = @ \cup {done.data.to}])
        /\ ret' = [status |-> done.status, data |-> done.data, loads |-> done.loads]
        /\ persistence' = done.self
        /\ UNCHANGED persistenceFrame

\* p.load(on_failure)
CallLoad(on_failure) ==
    LET done == StatePersistenceLoad(persistence, on_failure)
    IN  /\ call' = PersistenceCall("load", persistence, <<on_failure>>, call.caller)
        /\ ret' = [status |-> done.status, data |-> done.data]
        /\ persistence' = done.self
        /\ UNCHANGED persistenceFrame

\* p.commit()
CallCommit ==
    LET done == StatePersistenceCommit(persistence)
    IN  /\ persistence.commits < MaxCommits
        /\ call' = PersistenceCall("commit", persistence, <<>>, call.caller)
        /\ ret' = [status |-> done.status, data |-> done.data]
        /\ persistence' = done.self
        /\ UNCHANGED persistenceFrame

\* the mappings the caller reaches: those it holds and those nested in them
MappingsReached(memory, held) ==
    held \cup { memory[to].items[i].value.to :
                  to \in { h \in held : memory[h].items # <<>>
                                        /\ memory[h].items[1].value.py = "ref" },
                  i \in {1} }

\* the caller changes a mapping it reaches: d['v'] = 2
CallerChangesMapping(to) ==
    /\ to \in MappingsReached(persistence.memory, call.caller.held)
    /\ persistence.memory[to] # Dict1("v", PyInt(2))
    /\ \A i \in DOMAIN persistence.memory[to].items :
          persistence.memory[to].items[i].id = "v"
    /\ call' = PersistenceCall("d['v'] = 2", persistence, <<Ref(to)>>, call.caller)
    /\ ret' = NoReturn
    /\ persistence' = [persistence EXCEPT !.memory[to] = Dict1("v", PyInt(2))]
    /\ UNCHANGED persistenceFrame

NextPersistence ==
    \/ \E object_identifier \in IdentifierMenu, built \in MappingMenu(persistence.memory) :
          CallUpdateObjectState(object_identifier, built)
    \/ \E object_identifier \in IdentifierMenu, refresh \in RefreshMenu :
          CallGet(object_identifier, refresh)
    \/ \E on_failure \in {PyBool(FALSE), PyException("x")} : CallLoad(on_failure)
    \/ CallCommit
    \/ \E to \in 1..MaxObjects : CallerChangesMapping(to)

SpecPersistence == InitPersistence /\ [][NextPersistence]_vars

-----------------------------------------------------------------------------
(* C35: get returns what the latest update_object_state was given *)

\* the cache as == sees it: for every identifier the value of its mapping
CacheContents(self) ==
    [object_identifier \in DOMAIN self.state_cache |->
        Content(self.memory, self.state_cache[object_identifier])]

\* C35: get(k) returns a value equal to the argument of the most recent
\* update_object_state(k, .) as it was at that call, whatever the caller did
\* since to the mappings it passed or received, and an empty mapping when k
\* was never updated; get calls load only when k is missing and refresh is
\* True; get, load and commit leave the contents of the cache alone
C35_GetReturnsTheLatestUpdate ==
    /\ ( call.op = "get" /\ ret.status = "return" ) =>
          /\ Content(persistence.memory, ret.data)
                = IF HasVariable(call.caller.latest, call.arguments[1])
                  THEN GetVariable(call.caller.latest, call.arguments[1])
                  ELSE Dict(<<>>)
          /\ ret.loads = IF /\ ~HasVariable(call.persistence.state_cache, call.arguments[1])
                            /\ call.arguments[2] = PyBool(TRUE)
                         THEN 1 ELSE 0
    /\ call.op \in {"get", "load", "commit"} =>
          CacheContents(persistence) = CacheContents(call.persistence)

\* get returned the value that was passed to update_object_state, nested
\* mapping included, although the caller has since changed the nested mapping
\* of the mapping it passed
C35_Witness ==
    /\ call.op = "get"
    /\ ret.status = "return"
    /\ HasVariable(call.caller.passed, call.arguments[1])
    /\ Content(persistence.memory, ret.data) = Dict1("n", Dict1("v", PyInt(1)))
    /\ Content(persistence.memory, GetVariable(call.caller.passed, call.arguments[1]))
          = Dict1("n", Dict1("v", PyInt(2)))

====
